---- MODULE Spec2Model ----
(***************************************************************************)
(* The step-driven AST interpreter of src/ui/visualizer.py (UIVisualizer   *)
(* and CallFrame).  A program is the parsed content of the code editor:    *)
(* statement and expression nodes are records, a node's line number stands *)
(* for the identity id(node) of the node.  Every method of UIVisualizer is *)
(* an operator on the record s of the object's fields; the actions at the  *)
(* end apply the handlers (start, pause, resume, stop, the timer call-     *)
(* backs) to the variables.  Calls on the presentation layer (canvas       *)
(* items, highlight, diagnostics, the executionFinished signal) are        *)
(* recorded in the history variable events.                                *)
(***************************************************************************)
EXTENDS Integers, Sequences, FiniteSets, TLC

VARIABLES
    code_editor,            \* the program in the editor (its parse tree)
    is_running,             \* UIVisualizer.is_running
    is_paused,              \* UIVisualizer.is_paused
    functions,              \* UIVisualizer.functions: name -> FunctionDef
    classes,                \* UIVisualizer.classes: name -> ClassDef
    call_stack,             \* UIVisualizer.call_stack: sequence of CallFrame
    return_value,           \* UIVisualizer.return_value
    awaiting_return_value,  \* UIVisualizer.awaiting_return_value
    step_timer,             \* step_timer is active (single shot)
    single_shots,           \* pending QTimer.singleShot(200, _next_step)
    scope_timers,           \* pending QTimer.singleShot(2000, remove_animated)
    scope_count,            \* number of ScopeWidgets created in this run
    scopes_removed,         \* ScopeWidgets whose delayed remove_animated has run
    ticks,                  \* parity of the timer events delivered to _next_step
    events,                 \* history: calls made on the presentation layer
    awaiting_frame,         \* history: depth of the frame that set the marker
    last_resolve,           \* history: the last resolution of the marker
    step_stmts,             \* history: statements executed by the last step
    seen,                   \* history: what has happened to the run so far
    return_value_at_start   \* history: return_value when the run was started

vars == <<code_editor, is_running, is_paused, functions, classes, call_stack,
          return_value, awaiting_return_value, step_timer, single_shots,
          scope_timers, scope_count, scopes_removed, ticks, events, awaiting_frame, last_resolve,
          step_stmts, seen, return_value_at_start>>

(***************************************************************************)
(* Bounds of the model.                                                    *)
(***************************************************************************)
MaxLen == 3         \* statements of a drawn straight-line program
MaxLoopN == 2       \* iterations of a drawn loop
MaxLog == 60        \* recorded presentation calls per run
MaxShots == 1       \* pending initial single shots
MaxRestartShots == 2    \* the same, where a run is started again after stop()
MaxScopeTimers == 4 \* pending delayed scope removals
MaxScopes == 8      \* scope widgets told apart per run
MaxStack == 52      \* frames on the call stack when a step is taken
MaxConst == 3       \* integer constants of a drawn arithmetic expression

MAX_RECURSION_DEPTH == 50

(***************************************************************************)
(* Runtime values: int, bool, None, str, list and class instance.          *)
(***************************************************************************)
IntV(n) == [t |-> "int", v |-> n, txt |-> "", items |-> <<>>]
BoolV(b) == [t |-> "bool", v |-> IF b THEN 1 ELSE 0, txt |-> "", items |-> <<>>]
NoneV == [t |-> "none", v |-> 0, txt |-> "", items |-> <<>>]
StrV(x) == [t |-> "str", v |-> 0, txt |-> x, items |-> <<>>]
ListV(xs) == [t |-> "list", v |-> 0, txt |-> "", items |-> xs]
\* type(class_name, (), {})() and its attributes, in the order they were set.
AttrV(name, value) == [t |-> "attr", v |-> 0, txt |-> name, items |-> <<value>>]
InstanceV(class_name, attrs) == [t |-> "instance", v |-> 1, txt |-> class_name, items |-> attrs]
\* A setattr that does not replace an attribute the instance already has.
SetAttr_keeping_first(instance, name, value) ==
    IF \E i \in DOMAIN instance.items : instance.items[i].txt = name
    THEN instance
    ELSE [instance EXCEPT !.items = Append(@, AttrV(name, value))]

\* setattr(instance, name, value)
SetAttr(instance, name, value) ==
    IF \E i \in DOMAIN instance.items : instance.items[i].txt = name
    THEN [instance EXCEPT !.items = [i \in DOMAIN @ |->
                                        IF @[i].txt = name THEN AttrV(name, value) ELSE @[i]]]
    ELSE [instance EXCEPT !.items = Append(@, AttrV(name, value))]

IsNum(x) == x.t \in {"int", "bool"}

\* Python truthiness (bool(x)).
Truthy(x) ==
    CASE x.t = "list" -> Len(x.items) > 0
      [] x.t = "str" -> x.txt # ""
      [] OTHER -> x.v # 0

\* Python ==  (True == 1; a number never equals None, a str or a list).
PyEq(a, b) ==
    IF IsNum(a) /\ IsNum(b) THEN a.v = b.v
    ELSE IF a.t # b.t THEN FALSE
    ELSE a = b

RECURSIVE JoinStr(_, _)
JoinStr(xs, sep) ==
    IF Len(xs) = 0 THEN ""
    ELSE IF Len(xs) = 1 THEN xs[1]
    ELSE xs[1] \o sep \o JoinStr(Tail(xs), sep)

\* Python str(x).
RECURSIVE Str(_)
Str(x) ==
    CASE x.t = "int" -> ToString(x.v)
      [] x.t = "bool" -> IF x.v = 1 THEN "True" ELSE "False"
      [] x.t = "none" -> "None"
      [] x.t = "str" -> x.txt
      [] x.t = "list" ->
            "[" \o JoinStr([i \in 1..Len(x.items) |-> Str(x.items[i])], ", ") \o "]"
      \* object.__repr__ without the address, which differs from run to run
      [] x.t = "instance" -> "<ui.visualizer." \o x.txt \o " object>"

\* Integer division that rounds toward zero.
PyFloorDiv_truncating(a, b) ==
    LET m == (IF a < 0 THEN 0 - a ELSE a) \div (IF b < 0 THEN 0 - b ELSE b)
    IN IF (a < 0) = (b < 0) THEN m ELSE 0 - m

\* Python // and % on integers, b # 0 (floor semantics).
PyFloorDiv(a, b) == IF b > 0 THEN a \div b ELSE (0 - a) \div (0 - b)
PyMod(a, b) == a - b * PyFloorDiv(a, b)

(***************************************************************************)
(* Expression nodes (ast.expr).                                            *)
(***************************************************************************)
Expr(k, value, id, ops, args) ==
    [k |-> k, value |-> value, id |-> id, ops |-> ops, args |-> args]
NoExpr == Expr("None", NoneV, "", <<>>, <<>>)
Constant(v) == Expr("Constant", v, "", <<>>, <<>>)
Name(id) == Expr("Name", NoneV, id, <<>>, <<>>)
Call(f, args) == Expr("Call", NoneV, f, <<>>, args)
BinOp(l, op, r) == Expr("BinOp", NoneV, "", <<op>>, <<l, r>>)
UnaryOp(op, e) == Expr("UnaryOp", NoneV, "", <<op>>, <<e>>)
Compare(l, ops, comparators) == Expr("Compare", NoneV, "", ops, <<l>> \o comparators)
BoolOp(op, values) == Expr("BoolOp", NoneV, "", <<op>>, values)
List(elts) == Expr("List", NoneV, "", <<>>, elts)
\* ast.Dict: args holds key 1, value 1, key 2, value 2, ...
Dict(keys, values) ==
    Expr("Dict", NoneV, "", <<>>,
         [i \in 1..(2 * Len(keys)) |->
             IF i % 2 = 1 THEN keys[(i + 1) \div 2] ELSE values[i \div 2]])
\* ast.Attribute: value.attr
Attribute(value, attr) == Expr("Attribute", NoneV, attr, <<>>, <<value>>)
\* ast.Call whose func is the ast.Attribute value.attr: value.attr(args)
MethodCall(value, attr, args) == Expr("Call", NoneV, "", <<attr>>, <<value>> \o args)
\* isinstance(call_node.func, ast.Name)
FuncIsName(call_node) == call_node.ops = <<>>

(***************************************************************************)
(* Statement nodes (ast.stmt).  lineno identifies the node.                *)
(***************************************************************************)
Stmt(k, lineno, name, params, targets, op, value, body, orelse) ==
    [k |-> k, lineno |-> lineno, name |-> name, params |-> params,
     targets |-> targets, op |-> op, value |-> value, body |-> body,
     orelse |-> orelse]
NoNode == Stmt("None", 0, "", <<>>, <<>>, "", NoExpr, <<>>, <<>>)
Assign(l, target, e) == Stmt("Assign", l, "", <<>>, <<Name(target)>>, "", e, <<>>, <<>>)
AssignTo(l, target, e) == Stmt("Assign", l, "", <<>>, <<target>>, "", e, <<>>, <<>>)
AugAssign(l, target, op, e) ==
    Stmt("AugAssign", l, "", <<>>, <<Name(target)>>, op, e, <<>>, <<>>)
ExprStmt(l, e) == Stmt("Expr", l, "", <<>>, <<>>, "", e, <<>>, <<>>)
PrintStmt(l, args) == ExprStmt(l, Call("print", args))
CallStmt(l, f, args) == ExprStmt(l, Call(f, args))
Return(l, e) == Stmt("Return", l, "", <<>>, <<>>, "", e, <<>>, <<>>)
If(l, test, body, orelse) == Stmt("If", l, "", <<>>, <<>>, "", test, body, orelse)
While(l, test, body) == Stmt("While", l, "", <<>>, <<>>, "", test, body, <<>>)
For(l, target, iter, body) ==
    Stmt("For", l, "", <<>>, <<Name(target)>>, "", iter, body, <<>>)
\* ast.FunctionDef: name, args.args, body.
FunctionDef(l, name, params, body) ==
    Stmt("FunctionDef", l, name, params, <<>>, "", NoExpr, body, <<>>)
\* Statement kinds _next_step has no branch for.
Pass(l) == Stmt("Pass", l, "", <<>>, <<>>, "", NoExpr, <<>>, <<>>)
Break(l) == Stmt("Break", l, "", <<>>, <<>>, "", NoExpr, <<>>, <<>>)
Continue(l) == Stmt("Continue", l, "", <<>>, <<>>, "", NoExpr, <<>>, <<>>)
Try(l, body) == Stmt("Try", l, "", <<>>, <<>>, "", NoExpr, body, <<>>)
ClassDef(l, name, body) == Stmt("ClassDef", l, name, <<>>, <<>>, "", NoExpr, body, <<>>)

(***************************************************************************)
(* CallFrame and the record of the visualizer's fields.                    *)
(* A frame's nodes is a reference to a list object: the frame's own list   *)
(* (main_body_nodes of the module frame) or, for a function frame, the     *)
(* body list of the FunctionDef itself (CallFrame(name, func_def.body)).   *)
(***************************************************************************)
OwnList(nodes) == [ref |-> "", own |-> nodes]
BodyOf(func_name) == [ref |-> func_name, own |-> <<>>]

CallFrame(name, nodes, lineno) ==
    [name |-> name, nodes |-> nodes, lineno |-> lineno, ip |-> 0,
     locals |-> <<>>, scope_widget |-> 0, iterators |-> <<>>]

NoFrame == CallFrame("", OwnList(<<>>), -1)

FrameNodes(s, frame) ==
    IF frame.nodes.ref = "" THEN frame.nodes.own
    ELSE s.functions[frame.nodes.ref].body

State ==
    [code_editor |-> code_editor, is_running |-> is_running,
     is_paused |-> is_paused, functions |-> functions, classes |-> classes,
     call_stack |-> call_stack, return_value |-> return_value,
     awaiting_return_value |-> awaiting_return_value,
     step_timer |-> step_timer, single_shots |-> single_shots,
     scope_timers |-> scope_timers, scope_count |-> scope_count,
     scopes_removed |-> scopes_removed, ticks |-> ticks,
     events |-> events, awaiting_frame |-> awaiting_frame,
     last_resolve |-> last_resolve, step_stmts |-> step_stmts, seen |-> seen,
     return_value_at_start |-> return_value_at_start]

\* A call on the presentation layer.
Ev(e, line, scope, name, val, txt) ==
    [e |-> e, line |-> line, scope |-> scope, name |-> name, val |-> val, txt |-> txt]

Emit(s, ev) ==
    IF Len(s.events) < MaxLog THEN [s EXCEPT !.events = Append(@, ev)] ELSE s

\* A statement executed by the current step: through a frame's instruction
\* pointer ("ip") or by the synchronous walk of a function body ("sync").
Executed(s, node, via) ==
    IF Len(s.step_stmts) < MaxLog
    THEN [s EXCEPT !.step_stmts = Append(@, [line |-> node.lineno, k |-> node.k, via |-> via])]
    ELSE s

\* `sub in name` for the names of the programs drawn below.
SubstringPairs == {<<"f", "fact">>, <<"f", "fib">>, <<"g", "gcd">>}
NameContains(sub, name) == sub = name \/ <<sub, name>> \in SubstringPairs

Ok(s, v) == [s |-> s, val |-> v, err |-> ""]
Raise(s, e) == [s |-> s, val |-> NoneV, err |-> e]

\* A dict: its entries (key, value) in insertion order.
EntryV(key, value) == [t |-> "entry", v |-> 0, txt |-> "", items |-> <<key, value>>]
DictV(entries) == [t |-> "dict", v |-> 0, txt |-> "", items |-> entries]
Keys(data) == {data.items[i].items[1] : i \in DOMAIN data.items}

\* d[key] = value
SetItem(d, key, value) ==
    IF \E i \in DOMAIN d.items : PyEq(d.items[i].items[1], key)
    THEN [d EXCEPT !.items = [i \in DOMAIN @ |->
                                 IF PyEq(@[i].items[1], key)
                                 THEN EntryV(@[i].items[1], value) ELSE @[i]]]
    ELSE [d EXCEPT !.items = Append(@, EntryV(key, value))]

\* Lines 843-855, the definition in force (it replaces the one of lines
\* 823-842): the key 'value' and one of 'left', 'right', 'children'.
_is_tree_structure(data) ==
    /\ data.t = "dict"
    /\ StrV("value") \in Keys(data)
    /\ \E key \in {"left", "right", "children"} : StrV(key) \in Keys(data)

\* Lines 796-813: the widget class chosen for a value.
WidgetFor(value) ==
    CASE value.t = "list" -> "ArrayWidget"
      [] value.t = "str" -> "StringWidget"
      [] value.t = "dict" ->
            IF _is_tree_structure(value) THEN "TreeWidget" ELSE "DictionaryWidget"
      [] value.t = "instance" -> "ObjectWidget"
      [] OTHER -> "SmartVariableWidget"

(***************************************************************************)
(* _update_variable(var_name, value, frame=None).  frame is NoFrame or the *)
(* frame object passed; the result carries the visualizer and that frame.  *)
(***************************************************************************)
_update_variable_top(s, var_name, value, frame) ==
    LET n == Len(s.call_stack)
        top == s.call_stack[n]
        s1 == [s EXCEPT !.call_stack[n].locals = (var_name :> value) @@ @]
    IN [s |-> Emit(s1, Ev("var", 0, top.scope_widget, var_name, value, WidgetFor(value))),
        frame |-> frame]

\* _update_variable that ignores its frame argument and always writes the
\* top frame of the call stack.
_update_variable_ignoring_frame(s, var_name, value, frame) ==
    _update_variable_top(s, var_name, value, frame)

_update_variable(s, var_name, value, frame) ==
    IF frame = NoFrame
    THEN _update_variable_top(s, var_name, value, frame)
    ELSE [s |-> Emit(s, Ev("var", 0, frame.scope_widget, var_name, value,
                           WidgetFor(value))),
          frame |-> [frame EXCEPT !.locals = (var_name :> value) @@ @]]

\* new_frame.locals.update(zip(param_names, args))
RECURSIVE Zip(_, _)
Zip(names, args) ==
    IF Len(names) = 0 \/ Len(args) = 0 THEN <<>>
    ELSE Zip(Tail(names), Tail(args)) @@ (names[1] :> args[1])

(***************************************************************************)
(* Operators of the expression evaluator.  An operand combination whose    *)
(* result is not a modelled value (float results, ordering of lists, ...)  *)
(* has no CASE arm: the programs drawn below never evaluate one.           *)
(***************************************************************************)
RangeV(xs) == [t |-> "range", v |-> 0, txt |-> "", items |-> xs]

Res(v) == [val |-> v, err |-> ""]
Err(e) == [val |-> NoneV, err |-> e]

RECURSIVE Repeat(_, _)
Repeat(xs, n) == IF n <= 0 THEN <<>> ELSE xs \o Repeat(xs, n - 1)

\* op_map[type(node.op)](left, right) of BinOp and AugAssign.
ApplyBinOp(op, a, b) ==
    CASE a.t = "none" \/ b.t = "none" -> Err("TypeError")
      [] IsNum(a) /\ IsNum(b) /\ op = "Add" -> Res(IntV(a.v + b.v))
      [] IsNum(a) /\ IsNum(b) /\ op = "Sub" -> Res(IntV(a.v - b.v))
      [] IsNum(a) /\ IsNum(b) /\ op = "Mult" -> Res(IntV(a.v * b.v))
      [] IsNum(a) /\ IsNum(b) /\ op \in {"FloorDiv", "Mod"} /\ b.v = 0 ->
            Err("ZeroDivisionError")
      [] IsNum(a) /\ IsNum(b) /\ op = "FloorDiv" /\ b.v # 0 ->
            Res(IntV(PyFloorDiv(a.v, b.v)))
      [] IsNum(a) /\ IsNum(b) /\ op = "Mod" /\ b.v # 0 -> Res(IntV(PyMod(a.v, b.v)))
      [] IsNum(a) /\ IsNum(b) /\ op = "Pow" /\ b.v = 0 -> Res(IntV(1))
      [] IsNum(a) /\ IsNum(b) /\ op = "Pow" /\ b.v > 0 -> Res(IntV(a.v ^ b.v))
      [] IsNum(a) /\ IsNum(b) /\ op = "Pow" /\ b.v < 0 /\ a.v = 0 ->
            Err("ZeroDivisionError")
      [] a.t = "list" /\ b.t = "list" /\ op = "Add" -> Res(ListV(a.items \o b.items))
      [] a.t = "str" /\ b.t = "str" /\ op = "Add" -> Res(StrV(a.txt \o b.txt))
      [] a.t = "list" /\ IsNum(b) /\ op = "Mult" -> Res(ListV(Repeat(a.items, b.v)))
      [] a.t = "list" /\ IsNum(b) /\ op # "Mult" -> Err("TypeError")
      [] IsNum(a) /\ b.t = "list" /\ op # "Mult" -> Err("TypeError")
      [] a.t = "list" /\ b.t = "list" /\ op # "Add" -> Err("TypeError")

\* op_map of UnaryOp.
ApplyUnaryOp(op, x) ==
    CASE op = "Not" -> Res(BoolV(~Truthy(x)))
      [] op = "UAdd" /\ IsNum(x) -> Res(IntV(x.v))
      [] op = "USub" /\ IsNum(x) -> Res(IntV(0 - x.v))
      [] op \in {"UAdd", "USub"} /\ ~IsNum(x) -> Err("TypeError")

\* op_map of Compare.
ApplyCompare(op, a, b) ==
    CASE op = "Eq" -> Res(BoolV(PyEq(a, b)))
      [] op = "NotEq" -> Res(BoolV(~PyEq(a, b)))
      [] op \in {"Lt", "LtE", "Gt", "GtE"} /\ ~(IsNum(a) /\ IsNum(b))
            /\ (a.t = "none" \/ b.t = "none" \/ a.t # b.t) -> Err("TypeError")
      [] op = "Lt" /\ IsNum(a) /\ IsNum(b) -> Res(BoolV(a.v < b.v))
      [] op = "LtE" /\ IsNum(a) /\ IsNum(b) -> Res(BoolV(a.v <= b.v))
      [] op = "Gt" /\ IsNum(a) /\ IsNum(b) -> Res(BoolV(a.v > b.v))
      [] op = "GtE" /\ IsNum(a) /\ IsNum(b) -> Res(BoolV(a.v >= b.v))
      [] op = "In" /\ b.t \in {"list", "range"} ->
            Res(BoolV(\E i \in 1..Len(b.items) : PyEq(a, b.items[i])))
      [] op = "NotIn" /\ b.t \in {"list", "range"} ->
            Res(BoolV(~\E i \in 1..Len(b.items) : PyEq(a, b.items[i])))
      [] op \in {"In", "NotIn"} /\ (IsNum(b) \/ b.t = "none") -> Err("TypeError")

\* The names line 917 hands to eval(func_name)(*args).
Builtins == {"len", "str", "int", "float", "bool", "list", "dict", "tuple", "range", "print"}

ApplyBuiltin(func_name, args) ==
    CASE func_name = "print" -> Res(NoneV)
      [] func_name = "len" /\ Len(args) # 1 -> Err("TypeError")
      [] func_name = "len" /\ Len(args) = 1 /\ args[1].t \in {"list", "range"} ->
            Res(IntV(Len(args[1].items)))
      [] func_name = "len" /\ Len(args) = 1 /\ args[1].t \in {"int", "bool", "none"} ->
            Err("TypeError")
      [] func_name = "str" /\ Len(args) = 1 -> Res(StrV(Str(args[1])))
      [] func_name = "bool" /\ Len(args) = 0 -> Res(BoolV(FALSE))
      [] func_name = "bool" /\ Len(args) = 1 -> Res(BoolV(Truthy(args[1])))
      [] func_name = "int" /\ Len(args) = 0 -> Res(IntV(0))
      [] func_name = "int" /\ Len(args) = 1 /\ IsNum(args[1]) -> Res(IntV(args[1].v))
      [] func_name = "int" /\ Len(args) = 1 /\ args[1].t \in {"none", "list"} ->
            Err("TypeError")
      [] func_name = "list" /\ Len(args) = 0 -> Res(ListV(<<>>))
      [] func_name = "list" /\ Len(args) = 1 /\ args[1].t \in {"list", "range"} ->
            Res(ListV(args[1].items))
      [] func_name = "list" /\ Len(args) = 1 /\ args[1].t \in {"int", "bool", "none"} ->
            Err("TypeError")
      [] func_name = "range" /\ Len(args) = 1 /\ args[1].t \in {"int", "bool"} ->
            Res(RangeV([i \in 1..args[1].v |-> IntV(i - 1)]))
      [] func_name = "range" /\ Len(args) = 2 /\ IsNum(args[1]) /\ IsNum(args[2]) ->
            Res(RangeV([i \in 1..(args[2].v - args[1].v) |-> IntV(args[1].v + i - 1)]))
      [] func_name = "range" /\ (Len(args) = 0 \/ (Len(args) = 1 /\ ~IsNum(args[1]))) ->
            Err("TypeError")

\* A lookup that asks the module frame first and the other frames, innermost
\* first, only for the names the module frame does not bind.
LookupName_module_first(stack, i, id) ==
    LET binding == {k \in 1..i : id \in DOMAIN stack[k].locals}
    IN IF binding = {} THEN [found |-> FALSE, val |-> NoneV]
       ELSE IF 1 \in binding THEN [found |-> TRUE, val |-> stack[1].locals[id]]
       ELSE [found |-> TRUE,
             val |-> stack[CHOOSE m \in binding : \A k \in binding : k <= m].locals[id]]

\* Name lookup, lines 897-901: innermost frame first.
RECURSIVE LookupName(_, _, _)
LookupName(stack, i, id) ==
    IF i = 0 THEN [found |-> FALSE, val |-> NoneV]
    ELSE IF id \in DOMAIN stack[i].locals
         THEN [found |-> TRUE, val |-> stack[i].locals[id]]
         ELSE LookupName(stack, i - 1, id)

\* ScopeWidget(scope_name); canvas.add_item(scope_widget)
OpenScope(s, func_name, text) ==
    LET h == IF s.scope_count < MaxScopes THEN s.scope_count + 1 ELSE MaxScopes
    IN [s |-> Emit([s EXCEPT !.scope_count = h], Ev("open", 0, h, func_name, NoneV, text)),
        scope_widget |-> h]

\* for name, value in new_frame.locals.items(): _update_variable(name, value, frame=new_frame)
RECURSIVE ShowParameters(_, _, _, _)
ShowParameters(s, frame, names, i) ==
    IF i > Len(names) \/ names[i] \notin DOMAIN frame.locals
    THEN [s |-> s, frame |-> frame]
    ELSE LET u == _update_variable(s, names[i], frame.locals[names[i]], frame)
         IN ShowParameters(u.s, u.frame, names, i + 1)

ArgsText(args) == JoinStr([i \in 1..Len(args) |-> Str(args[i])], ", ")

\* QTimer.singleShot(2000, scope_widget.remove_animated)
ScheduleRemoval(s, scope_widget) ==
    IF Len(s.scope_timers) < MaxScopeTimers
    THEN [s EXCEPT !.scope_timers = Append(@, scope_widget)]
    ELSE s

\* A cleanup that leaves the frame of the finished call on the stack.
RemoveFrame_leaving_frame(stack, idx) == stack

\* self.call_stack.remove(new_frame), new_frame pushed at position idx.
RemoveFrame(stack, idx) ==
    IF idx <= Len(stack)
    THEN SubSeq(stack, 1, idx - 1) \o SubSeq(stack, idx + 1, Len(stack))
    ELSE stack

Walked(s, v, e, returned) == [s |-> s, val |-> v, err |-> e, returned |-> returned]

(***************************************************************************)
(* _evaluate_expression (lines 857-1008) and the synchronous execution of  *)
(* a user function called inside an expression,                            *)
(* _execute_function_directly (lines 338-416).                             *)
(***************************************************************************)
RECURSIVE _evaluate_expression(_, _)
RECURSIVE EvaluateAll(_, _)
RECURSIVE _execute_function_directly(_, _, _)
RECURSIVE WalkBody(_, _, _, _)
RECURSIVE WalkBranch(_, _, _, _)

\* [self._evaluate_expression(arg) for arg in node.args]
EvaluatedRest(r, rest) ==
    [s |-> rest.s, vals |-> <<r.val>> \o rest.vals, err |-> rest.err]

EvaluatedFirst(r, exprs) ==
    IF r.err # "" THEN [s |-> r.s, vals |-> <<>>, err |-> r.err]
    ELSE EvaluatedRest(r, EvaluateAll(r.s, Tail(exprs)))

EvaluateAll(s, exprs) ==
    IF Len(exprs) = 0 THEN [s |-> s, vals |-> <<>>, err |-> ""]
    ELSE EvaluatedFirst(_evaluate_expression(s, exprs[1]), exprs)

\* Return inside a synchronously executed body, lines 372-380 and 393-400;
\* r is the evaluated stmt.value.
SyncReturned(r, stmt, idx) ==
    IF r.err # "" THEN Walked(r.s, NoneV, r.err, TRUE)
    ELSE Walked(Emit(r.s, Ev("return", stmt.lineno,
                             r.s.call_stack[idx].scope_widget, "return", r.val, "")),
                r.val, "", TRUE)

SyncReturn(s, stmt, idx) ==
    IF stmt.value = NoExpr THEN Walked(s, NoneV, "", TRUE)
    ELSE SyncReturned(_evaluate_expression(s, stmt.value), stmt, idx)

\* Assign inside a synchronously executed body, lines 381-386 and 401-406.
SyncBound(u, idx) == [u.s EXCEPT !.call_stack[idx] = u.frame]

SyncBindOne(s1, var_name, value, idx) ==
    SyncBound(_update_variable(s1, var_name, value, s1.call_stack[idx]), idx)

RECURSIVE SyncBind(_, _, _, _, _)
SyncBind(s, targets, i, value, idx) ==
    IF i > Len(targets) THEN s
    ELSE IF targets[i].k # "Name" THEN SyncBind(s, targets, i + 1, value, idx)
    ELSE SyncBind(SyncBindOne([s EXCEPT !.call_stack[idx].locals =
                                            (targets[i].id :> value) @@ @],
                              targets[i].id, value, idx),
                  targets, i + 1, value, idx)

\* r is the evaluated stmt.value.
SyncAssigned(r, stmt, idx) ==
    IF r.err # "" THEN Walked(r.s, NoneV, r.err, TRUE)
    ELSE Walked(SyncBind(r.s, stmt.targets, 1, r.val, idx), NoneV, "", FALSE)

SyncAssign(s, stmt, idx) ==
    SyncAssigned(_evaluate_expression(s, stmt.value), stmt, idx)

\* for sub_stmt in body_to_execute, lines 392-406; a is the outcome of the
\* statement at i.
WalkBranchOn(a, body, i, idx) ==
    IF a.err # "" \/ a.returned THEN a ELSE WalkBranch(a.s, body, i + 1, idx)

WalkBranch(s, body, i, idx) ==
    IF i > Len(body) THEN Walked(s, NoneV, "", FALSE)
    ELSE CASE body[i].k = "Return" ->
                  SyncReturn(Executed(s, body[i], "sync"), body[i], idx)
           [] body[i].k = "Assign" ->
                  WalkBranchOn(SyncAssign(Executed(s, body[i], "sync"), body[i], idx),
                               body, i, idx)
           [] OTHER -> WalkBranch(s, body, i + 1, idx)

\* for stmt in func_def.body, lines 371-408; a is the outcome of the
\* statement at i.
WalkBodyOn(a, body, i, idx) ==
    IF a.err # "" \/ a.returned THEN a ELSE WalkBody(a.s, body, i + 1, idx)

\* Lines 387-406; r is the evaluated stmt.test.
WalkIf(r, body, i, idx) ==
    IF r.err # "" THEN Walked(r.s, NoneV, r.err, TRUE)
    ELSE WalkBodyOn(WalkBranch(r.s, IF Truthy(r.val) THEN body[i].body ELSE body[i].orelse,
                               1, idx),
                    body, i, idx)

WalkBody(s, body, i, idx) ==
    IF i > Len(body) THEN Walked(s, NoneV, "", FALSE)
    ELSE CASE body[i].k = "Return" ->
                  SyncReturn(Executed(s, body[i], "sync"), body[i], idx)
           [] body[i].k = "Assign" ->
                  WalkBodyOn(SyncAssign(Executed(s, body[i], "sync"), body[i], idx),
                             body, i, idx)
           [] body[i].k = "If" ->
                  WalkIf(_evaluate_expression(Executed(s, body[i], "sync"), body[i].value),
                         body, i, idx)
           [] OTHER -> WalkBody(s, body, i + 1, idx)

\* Lines 410-416, the finally clause; w is the outcome of the body.
LeaveFunction(w, idx, scope_widget) ==
    [s |-> ScheduleRemoval([w.s EXCEPT !.call_stack = RemoveFrame(@, idx)], scope_widget),
     val |-> w.val, err |-> w.err]

\* Lines 366-408; u carries the visualizer and new_frame after lines 363-364.
RunFunction(u, func_name, scope_widget) ==
    LeaveFunction(WalkBody([u.s EXCEPT !.call_stack = Append(@, u.frame)],
                           u.s.functions[func_name].body, 1, Len(u.s.call_stack) + 1),
                  Len(u.s.call_stack) + 1, scope_widget)

\* Lines 348-364; o carries the visualizer and the new scope_widget.
EnterFunction(o, func_name, args) ==
    RunFunction(ShowParameters(o.s,
                               [CallFrame(func_name, BodyOf(func_name), 0) EXCEPT
                                   !.locals = Zip(o.s.functions[func_name].params, args),
                                   !.scope_widget = o.scope_widget],
                               o.s.functions[func_name].params, 1),
                func_name, o.scope_widget)

_execute_function_directly(s, func_name, args) ==
    LET current_recursion_depth ==
            Cardinality({i \in DOMAIN s.call_stack :
                            NameContains(func_name, s.call_stack[i].name)})
    IN IF current_recursion_depth > MAX_RECURSION_DEPTH THEN Ok(s, NoneV)
       ELSE EnterFunction(
                OpenScope(s, func_name,
                          func_name \o "(" \o ArgsText(args) \o ")" \o
                          (IF current_recursion_depth > 0
                           THEN " [Depth " \o ToString(current_recursion_depth + 1) \o "]"
                           ELSE "")),
                func_name, args)

Valued(s, b) == [s |-> s, val |-> b.val, err |-> b.err]

(***************************************************************************)
(* _execute_class_instantiation (lines 486-532), reached from line 912     *)
(* with a registered class.                                                *)
(***************************************************************************)
\* Lines 499-504: the first FunctionDef named __init__ of the class body.
RECURSIVE InitMethod(_, _)
InitMethod(body, i) ==
    IF i > Len(body) THEN NoNode
    ELSE IF body[i].k = "FunctionDef" /\ body[i].name = "__init__" THEN body[i]
    ELSE InitMethod(body, i + 1)

\* isinstance(target, ast.Attribute) and isinstance(target.value, ast.Name)
\* and target.value.id == 'self'
IsSelfAttribute(target) ==
    target.k = "Attribute" /\ target.args[1].k = "Name" /\ target.args[1].id = "self"

RECURSIVE InitBody(_, _, _, _, _)
RECURSIVE InitTargets(_, _, _, _, _, _)

\* The instance is one object: init_frame.locals['self'] (frame idx) sees
\* the attribute set by setattr.
InitAttrSet(s, body, i, j, instance, idx) ==
    InitTargets([s EXCEPT !.call_stack[idx].locals = ("self" :> instance) @@ @],
                body, i, j + 1, instance, idx)

\* Lines 526-527; r is the evaluated stmt.value.
InitEvaluated(r, body, i, j, instance, idx) ==
    IF r.err # "" THEN r
    ELSE InitAttrSet(r.s, body, i, j,
                     SetAttr(instance, body[i].targets[j].id, r.val), idx)

\* Lines 523-527: for target in stmt.targets.
InitTargets(s, body, i, j, instance, idx) ==
    IF j > Len(body[i].targets) THEN InitBody(s, body, i + 1, instance, idx)
    ELSE IF IsSelfAttribute(body[i].targets[j])
    THEN InitEvaluated(_evaluate_expression(s, body[i].value), body, i, j, instance, idx)
    ELSE InitTargets(s, body, i, j + 1, instance, idx)

\* Lines 521-527: for stmt in init_method.body; only ast.Assign is looked at.
InitBody(s, body, i, instance, idx) ==
    IF i > Len(body) THEN Ok(s, instance)
    ELSE IF body[i].k = "Assign"
    THEN InitTargets(Executed(s, body[i], "sync"), body, i, 1, instance, idx)
    ELSE InitBody(s, body, i + 1, instance, idx)

\* Lines 528-530: finally, pop the top frame if the stack is longer than
\* it was before the __init__ frame was pushed.
LeaveInit(w, old_stack_len) ==
    IF Len(w.s.call_stack) > old_stack_len
    THEN [w EXCEPT !.s.call_stack = SubSeq(@, 1, Len(@) - 1)]
    ELSE w

\* Lines 506-530.
RunInit(s, class_name, args, init_method) ==
    IF init_method = NoNode THEN Ok(s, InstanceV(class_name, <<>>))
    ELSE LeaveInit(
             InitBody([s EXCEPT !.call_stack =
                          Append(@, [CallFrame(class_name \o ".__init__",
                                               OwnList(init_method.body), 0) EXCEPT
                                        !.locals =
                                            Zip(SubSeq(init_method.params, 2,
                                                       Len(init_method.params)), args)
                                            @@ ("self" :> InstanceV(class_name, <<>>))])],
                      init_method.body, 1, InstanceV(class_name, <<>>),
                      Len(s.call_stack) + 1),
             Len(s.call_stack))

_execute_class_instantiation(s, class_name, args) ==
    RunInit(s, class_name, args, InitMethod(s.classes[class_name].body, 1))

\* Lines 888-889; r is the evaluated node.elts.
\* The frame whose binding the lookup of lines 897-901 returns, 0 for none.
RECURSIVE BindingFrame(_, _, _)
BindingFrame(stack, i, id) ==
    IF i = 0 THEN 0
    ELSE IF id \in DOMAIN stack[i].locals THEN i
    ELSE BindingFrame(stack, i - 1, id)

\* A list is an object shared by reference: a method that changes it in
\* place changes what the name it was reached through is bound to.  (No
\* drawn program binds one list to two names.)
MutatedAt(s, frame, id, obj) ==
    IF frame = 0 THEN s ELSE [s EXCEPT !.call_stack[frame].locals[id] = obj]

Mutated(s, target, obj) ==
    IF target.k # "Name" THEN s
    ELSE MutatedAt(s, BindingFrame(s.call_stack, Len(s.call_stack), target.id),
                   target.id, obj)

\* Lines 965-970: method(*args) when hasattr(obj, method_name).  Of the
\* methods of a list, append and pop() are modelled.
CallMethod(s, obj, method_name, args, target) ==
    CASE obj.t = "list" /\ method_name = "append" ->
            IF Len(args) = 1
            THEN Ok(Mutated(s, target, ListV(Append(obj.items, args[1]))), NoneV)
            ELSE Raise(s, "TypeError")
      [] obj.t = "list" /\ method_name = "pop" /\ args = <<>> ->
            IF obj.items = <<>> THEN Raise(s, "IndexError")
            ELSE Ok(Mutated(s, target, ListV(SubSeq(obj.items, 1, Len(obj.items) - 1))),
                    obj.items[Len(obj.items)])
      [] OTHER -> Raise(s, "AttributeError")

\* Lines 962-963; a is the evaluated node.args, obj the evaluated node.func.value.
MethodArgs(a, obj, node) ==
    IF a.err # "" THEN Raise(a.s, a.err)
    ELSE CallMethod(a.s, obj, node.ops[1], a.vals, node.args[1])

\* Lines 960-970; r is the evaluated node.func.value.
MethodObject(r, node) ==
    IF r.err # "" THEN r ELSE MethodArgs(EvaluateAll(r.s, Tail(node.args)), r.val, node)

\* Lines 893-894.
RECURSIVE DictOf(_, _, _)
DictOf(vals, i, d) ==
    IF i > Len(vals) THEN d
    ELSE DictOf(vals, i + 2, SetItem(d, vals[i], vals[i + 1]))

EvaluatedDict(r) ==
    IF r.err # "" THEN Raise(r.s, r.err)
    ELSE IF \E i \in 1..Len(r.vals) : i % 2 = 1 /\ r.vals[i].t \in {"list", "dict"}
    THEN Raise(r.s, "TypeError")
    ELSE Ok(r.s, DictOf(r.vals, 1, DictV(<<>>)))

EvaluatedList(r) == IF r.err # "" THEN Raise(r.s, r.err) ELSE Ok(r.s, ListV(r.vals))

\* Lines 905-970; a is the evaluated node.args.
EvaluatedCall(a, node) ==
    IF a.err # "" THEN Raise(a.s, a.err)
    ELSE IF node.id \in DOMAIN a.s.classes
    THEN _execute_class_instantiation(a.s, node.id, a.vals)
    ELSE IF node.id \in Builtins THEN Valued(a.s, ApplyBuiltin(node.id, a.vals))
    ELSE IF node.id \in DOMAIN a.s.functions
    THEN _execute_function_directly(a.s, node.id, a.vals)
    ELSE Raise(a.s, "NameError")

\* Lines 973-982 and 989-1000; l and r are the evaluated operands.
\* A comparison that goes on to the second operator and comparator of a
\* chain, as the host language does.
ChainedOn(first, second) ==
    IF first.err # "" THEN first
    ELSE IF ~Truthy(first.val) THEN first
    ELSE second

ChainedThird(c, l, r, node) ==
    IF c.err # "" THEN c
    ELSE Valued(c.s, ChainedOn(ApplyCompare(node.ops[1], l.val, r.val),
                               ApplyCompare(node.ops[2], r.val, c.val)))

EvaluatedBoth_chained(l, r, node) ==
    IF r.err # "" THEN r
    ELSE IF node.k = "BinOp" THEN Valued(r.s, ApplyBinOp(node.ops[1], l.val, r.val))
    ELSE IF Len(node.args) = 2
    THEN Valued(r.s, ApplyCompare(node.ops[1], l.val, r.val))
    ELSE ChainedThird(_evaluate_expression(r.s, node.args[3]), l, r, node)

EvaluatedBoth(l, r, node) ==
    IF r.err # "" THEN r
    ELSE IF node.k = "BinOp" THEN Valued(r.s, ApplyBinOp(node.ops[1], l.val, r.val))
    ELSE Valued(r.s, ApplyCompare(node.ops[1], l.val, r.val))

EvaluatedLeft(l, node) ==
    IF l.err # "" THEN l
    ELSE EvaluatedBoth(l, _evaluate_expression(l.s, node.args[2]), node)

\* Lines 984-987; x is the evaluated operand.
EvaluatedOperand(x, node) ==
    IF x.err # "" THEN x ELSE Valued(x.s, ApplyUnaryOp(node.ops[1], x.val))

\* Lines 897-901.
\* A lookup that yields None for a name bound in no frame.
EvaluatedName_defaulting(s, r) == Ok(s, r.val)

EvaluatedName(s, r) == IF r.found THEN Ok(s, r.val) ELSE Raise(s, "NameError")

_evaluate_expression(s, node) ==
    CASE node.k = "None" -> Ok(s, NoneV)
      [] node.k = "Constant" -> Ok(s, node.value)
      [] node.k = "List" -> EvaluatedList(EvaluateAll(s, node.args))
      [] node.k = "Dict" -> EvaluatedDict(EvaluateAll(s, node.args))
      [] node.k = "Name" ->
            EvaluatedName(s, LookupName(s.call_stack, Len(s.call_stack), node.id))
      [] node.k = "Call" ->
            IF FuncIsName(node) THEN EvaluatedCall(EvaluateAll(s, node.args), node)
            ELSE MethodObject(_evaluate_expression(s, node.args[1]), node)
      [] node.k \in {"BinOp", "Compare"} ->
            EvaluatedLeft(_evaluate_expression(s, node.args[1]), node)
      [] node.k = "UnaryOp" ->
            EvaluatedOperand(_evaluate_expression(s, node.args[1]), node)
      [] OTHER -> Raise(s, "TypeError")

(***************************************************************************)
(* The stepping engine.                                                    *)
(***************************************************************************)
Done(s) == [s |-> s, err |-> ""]
Failed(s, e) == [s |-> s, err |-> e]

\* A finish that tears the call stack down to the module frame.
_finish_execution_unwinding(s) ==
    Emit([s EXCEPT !.is_running = FALSE, !.is_paused = FALSE, !.step_timer = FALSE,
                   !.call_stack = SubSeq(@, 1, 1)],
         Ev("finished", 0, 0, "", NoneV, ""))

\* Lines 1026-1032.
_finish_execution(s) ==
    Emit([s EXCEPT !.is_running = FALSE, !.is_paused = FALSE, !.step_timer = FALSE],
         Ev("finished", 0, 0, "", NoneV, ""))

\* _handle_return with the guard `len(self.call_stack) > 0`: the module frame
\* is popped like any other.
_handle_return_pop_any(s, value) ==
    IF Len(s.call_stack) > 0
    THEN [s EXCEPT !.call_stack = SubSeq(@, 1, Len(@) - 1), !.return_value = value]
    ELSE _finish_execution([s EXCEPT !.return_value = value])

\* Lines 777-785.
_handle_return(s, value) ==
    IF Len(s.call_stack) > 1
    THEN LET frame_to_pop == s.call_stack[Len(s.call_stack)]
             popped == [s EXCEPT !.call_stack = SubSeq(@, 1, Len(@) - 1)]
             removed == IF frame_to_pop.scope_widget # 0
                        THEN Emit(popped, Ev("close", 0, frame_to_pop.scope_widget,
                                             frame_to_pop.name, NoneV, ""))
                        ELSE popped
         IN [removed EXCEPT !.return_value = value]
    ELSE _finish_execution([s EXCEPT !.return_value = value])

\* for target in node.targets: if isinstance(target, ast.Name): _update_variable(...)
RECURSIVE BindTargets(_, _, _, _)
BindTargets(s, targets, i, value) ==
    IF i > Len(targets) THEN s
    ELSE IF targets[i].k # "Name" THEN BindTargets(s, targets, i + 1, value)
    ELSE BindTargets(_update_variable(s, targets[i].id, value, NoFrame).s,
                     targets, i + 1, value)

\* Lines 678-695.
\* Lines 685-695; c is the evaluated current value, value the evaluated
\* right-hand side.
AugAssigned(c, var_name, b) ==
    IF b.err # "" THEN Failed(c.s, b.err)
    ELSE Done(_update_variable(c.s, var_name, b.val, NoFrame).s)

AugAssignCurrent(c, node, value) ==
    IF c.err # "" THEN Failed(c.s, c.err)
    ELSE AugAssigned(c, node.targets[1].id, ApplyBinOp(node.op, c.val, value))

\* r is the evaluated node.value.
AssignEvaluated(r, node) ==
    IF r.err # "" THEN Failed(r.s, r.err)
    ELSE IF node.k = "Assign" THEN Done(BindTargets(r.s, node.targets, 1, r.val))
    ELSE IF node.targets[1].k # "Name" THEN Failed(r.s, "AttributeError")
    ELSE AugAssignCurrent(_evaluate_expression(r.s, Name(node.targets[1].id)), node, r.val)

_execute_assignment(s, node) == AssignEvaluated(_evaluate_expression(s, node.value), node)

\* Lines 706-715.
PrintEvaluated(a) ==
    IF a.err # "" THEN Failed(a.s, a.err)
    ELSE Done(Emit(a.s, Ev("print", 0, 0, "", NoneV,
                           JoinStr([i \in 1..Len(a.vals) |-> Str(a.vals[i])], " "))))

_execute_print(s, node) == PrintEvaluated(EvaluateAll(s, node.args))

\* Lines 717-749.  node.func is a Name here, so the method branch of line
\* 721 is never taken.
PushFrame(u) == Done([u.s EXCEPT !.call_stack = Append(@, u.frame)])

\* Lines 735-749; o carries the visualizer and the new scope_widget.
CallOpened(o, func_name, vals, lineno) ==
    PushFrame(ShowParameters(o.s,
                             [CallFrame(func_name, BodyOf(func_name), lineno) EXCEPT
                                 !.locals = Zip(o.s.functions[func_name].params, vals),
                                 !.scope_widget = o.scope_widget],
                             o.s.functions[func_name].params, 1))

\* Lines 728-734; a is the evaluated node.args.
CallEvaluated(a, func_name, lineno) ==
    IF a.err # "" THEN Failed(a.s, a.err)
    ELSE LET recursion_depth ==
                 Cardinality({i \in DOMAIN a.s.call_stack :
                                 NameContains(func_name, a.s.call_stack[i].name)})
         IN CallOpened(OpenScope(a.s, func_name,
                                 IF recursion_depth = 0 THEN func_name \o "()"
                                 ELSE func_name \o "() - Recursive Call "
                                      \o ToString(recursion_depth + 1)),
                       func_name, a.vals, lineno)

\* A call whose arguments are evaluated, left to right, with the callee's
\* frame already on the stack and each parameter bound as soon as its
\* argument is known.
RECURSIVE BindInCallee(_, _, _, _)
BoundInCallee(r, rest) ==
    [s |-> rest.s, vals |-> <<r.val>> \o rest.vals, err |-> rest.err]

BindNextInCallee(r, params, args, i) ==
    IF r.err # "" THEN [s |-> r.s, vals |-> <<>>, err |-> r.err]
    ELSE BoundInCallee(r, BindInCallee(
             [r.s EXCEPT !.call_stack[Len(r.s.call_stack)].locals = (params[i] :> r.val) @@ @],
             params, args, i + 1))

BindInCallee(s, params, args, i) ==
    IF i > Len(args) \/ i > Len(params) THEN [s |-> s, vals |-> <<>>, err |-> ""]
    ELSE BindNextInCallee(_evaluate_expression(s, args[i]), params, args, i)

LeaveCallee(a) == [a EXCEPT !.s.call_stack = SubSeq(@, 1, Len(@) - 1)]

_execute_call_binding_in_callee(s, node, lineno) ==
    IF node.id \notin DOMAIN s.functions THEN Done(s)
    ELSE CallEvaluated(
             LeaveCallee(BindInCallee(
                 [s EXCEPT !.call_stack = Append(@, CallFrame(node.id, BodyOf(node.id), lineno))],
                 s.functions[node.id].params, node.args, 1)),
             node.id, lineno)

_execute_call(s, node, lineno) ==
    IF node.id \notin DOMAIN s.functions THEN Done(s)
    ELSE CallEvaluated(EvaluateAll(s, node.args), node.id, lineno)

\* Assignment to the list object a frame's nodes refers to.
SetNodes(s, n, nodes) ==
    IF s.call_stack[n].nodes.ref = ""
    THEN [s EXCEPT !.call_stack[n].nodes.own = nodes]
    ELSE [s EXCEPT !.functions[s.call_stack[n].nodes.ref].body = nodes]

\* nodes[ip + 1:ip + 1] = inserted   (ip counts from 0)
Splice(nodes, ip, inserted) ==
    SubSeq(nodes, 1, ip + 1) \o inserted \o SubSeq(nodes, ip + 2, Len(nodes))

Without(f, key) == [k \in DOMAIN f \ {key} |-> f[k]]

\* Lines 181-188: the pending-return marker is applied to the top frame.
ResolveAwaiting(s, n) ==
    IF s.awaiting_return_value = NoNode THEN s
    ELSE LET node_to_complete == s.awaiting_return_value
             s1 == [s EXCEPT !.awaiting_return_value = NoNode,
                             !.last_resolve = [owner |-> s.awaiting_frame, top |-> n,
                                               line |-> node_to_complete.lineno],
                             !.awaiting_frame = 0]
             s2 == IF node_to_complete.k = "Assign"
                   THEN BindTargets(s1, node_to_complete.targets, 1, s1.return_value)
                   ELSE s1
         IN [s2 EXCEPT !.call_stack[n].ip = @ + 1]

SetAwaiting(s, n, node) ==
    [s EXCEPT !.awaiting_return_value = node, !.awaiting_frame = n]

\* The pointer moved twice for one dispatch.
AdvanceIp_twice(s, n) == [s EXCEPT !.call_stack[n].ip = @ + 2]

AdvanceIp(s, n) == [s EXCEPT !.call_stack[n].ip = @ + 1]

\* An `if` whose chosen branch is executed at once, inside the step that
\* dispatches the `if` (the way of _execute_if_in_frame, lines 425-439),
\* instead of being spliced into the instruction list.
RECURSIVE ExecuteBranchNow(_, _, _)
BranchNowOn(d, body, i) ==
    IF d.err # "" THEN d ELSE ExecuteBranchNow(d.s, body, i + 1)

ExecuteBranchNow(s, body, i) ==
    IF i > Len(body) THEN Done(s)
    ELSE IF body[i].k # "Assign" THEN ExecuteBranchNow(s, body, i + 1)
    ELSE BranchNowOn(_execute_assignment(Executed(s, body[i], "ip"), body[i]), body, i)

\* The outcome d of a dispatch that leaves the pointer to the dispatcher.
Advance(d, n) == IF d.err # "" THEN d ELSE Done(AdvanceIp(d.s, n))

IfTested_in_frame(r, n, node) ==
    IF r.err # "" THEN Failed(r.s, r.err)
    ELSE Advance(ExecuteBranchNow(r.s, IF Truthy(r.val) THEN node.body ELSE node.orelse, 1),
                 n)

DispatchIf_in_frame(s, n, node) ==
    IfTested_in_frame(_evaluate_expression(s, node.value), n, node)

\* Lines 220-237.
IfSpliced(shown, n, body_to_execute) ==
    Done(AdvanceIp(SetNodes(shown, n, Splice(FrameNodes(shown, shown.call_stack[n]),
                                             shown.call_stack[n].ip, body_to_execute)),
                   n))

\* r is the evaluated node.test.
IfTested(r, n, node) ==
    IF r.err # "" THEN Failed(r.s, r.err)
    ELSE IfSpliced(Emit(r.s, Ev("condition", node.lineno, 0, "if", r.val, Str(r.val))), n,
                   IF Truthy(r.val) THEN node.body ELSE node.orelse)

DispatchIf(s, n, node) == IfTested(_evaluate_expression(s, node.value), n, node)

LoopInfo(iteration, widget, body_nodes, iterable_list, pos) ==
    [iteration |-> iteration, widget |-> widget, body_nodes |-> body_nodes,
     iterable_list |-> iterable_list, pos |-> pos]

\* Lines 262-264 and 305-310: the loop's widget is created once.
LoopWidget(s, n, node, text) ==
    IF s.call_stack[n].iterators[node.lineno].widget THEN s
    ELSE Emit([s EXCEPT !.call_stack[n].iterators[node.lineno].widget = TRUE],
              Ev("loop_widget", node.lineno, 0, "", NoneV, text))

\* The body and then the loop node itself are inserted after the pointer.
SpliceLoop(s, n, node) ==
    LET frame == s.call_stack[n]
    IN SetNodes(s, n, Splice(FrameNodes(s, frame), frame.ip,
                             frame.iterators[node.lineno].body_nodes \o <<node>>))

\* Lines 266-280; s2 is the visualizer after line 264.
WhileIterate(s3, n, node, test_result) ==
    Done(AdvanceIp(SpliceLoop(
        Emit(s3, Ev("loop", node.lineno, 0, "while", test_result,
                    "Iteration "
                    \o ToString(s3.call_stack[n].iterators[node.lineno].iteration)
                    \o ": " \o Str(test_result))),
        n, node), n))

WhileShown(s2, n, node, test_result) ==
    IF Truthy(test_result)
    THEN WhileIterate([s2 EXCEPT !.call_stack[n].iterators[node.lineno].iteration = @ + 1],
                      n, node, test_result)
    ELSE Done(AdvanceIp([Emit(s2, Ev("loop_end", node.lineno, 0, "while", NoneV,
                                     "Loop ended"))
                            EXCEPT !.call_stack[n].iterators = Without(@, node.lineno)],
                        n))

\* r is the evaluated node.test.
WhileTested(r, n, node) ==
    IF r.err # "" THEN Failed(r.s, r.err)
    ELSE WhileShown(LoopWidget(r.s, n, node, "Starting..."), n, node, r.val)

\* Lines 238-280.
DispatchWhile(s, n, node) ==
    WhileTested(
        _evaluate_expression(
            IF node.lineno \in DOMAIN s.call_stack[n].iterators THEN s
            ELSE [s EXCEPT !.call_stack[n].iterators =
                      (node.lineno :> LoopInfo(0, FALSE, node.body, <<>>, 0)) @@ @],
            node.value),
        n, node)

\* Lines 312-329; s2 is the visualizer after line 310, info its loop_info.
ForBound(s4, n, node, info, item_value) ==
    Done(AdvanceIp(SpliceLoop(
        Emit(s4, Ev("loop", node.lineno, 0, node.targets[1].id, item_value,
                    ToString(info.iteration + 1) \o "/"
                    \o ToString(Len(info.iterable_list)) \o ": " \o Str(item_value))),
        n, node), n))

ForItem(s3, n, node, info, item_value) ==
    ForBound(_update_variable(s3, node.targets[1].id, item_value, NoFrame).s,
             n, node, info, item_value)

\* A `for` that binds its target in the module frame, whatever frame holds
\* the loop.
ForShown_binding_in_module(s2, n, node, info) ==
    IF info.pos < Len(info.iterable_list)
    THEN ForItem([s2 EXCEPT !.call_stack[n].iterators[node.lineno].pos = @ + 1,
                            !.call_stack[n].iterators[node.lineno].iteration = @ + 1,
                            !.call_stack[1].locals =
                                (node.targets[1].id :> info.iterable_list[info.pos + 1]) @@ @],
                 n, node, info, info.iterable_list[info.pos + 1])
    ELSE Done(AdvanceIp([Emit(s2, Ev("loop_end", node.lineno, 0, node.targets[1].id, NoneV,
                                     "Loop completed"))
                            EXCEPT !.call_stack[n].iterators = Without(@, node.lineno)],
                        n))

ForShown(s2, n, node, info) ==
    IF info.pos < Len(info.iterable_list)
    THEN ForItem([s2 EXCEPT !.call_stack[n].iterators[node.lineno].pos = @ + 1,
                            !.call_stack[n].iterators[node.lineno].iteration = @ + 1,
                            !.call_stack[n].locals =
                                (node.targets[1].id :> info.iterable_list[info.pos + 1]) @@ @],
                 n, node, info, info.iterable_list[info.pos + 1])
    ELSE Done(AdvanceIp([Emit(s2, Ev("loop_end", node.lineno, 0, node.targets[1].id, NoneV,
                                     "Loop completed"))
                            EXCEPT !.call_stack[n].iterators = Without(@, node.lineno)],
                        n))

\* Lines 303-310; s1 holds the loop_info of this loop.
ForKnown(s1, n, node) ==
    ForShown(LoopWidget(s1, n, node,
                        "0/" \o ToString(Len(s1.call_stack[n].iterators[node.lineno]
                                                .iterable_list))),
             n, node, s1.call_stack[n].iterators[node.lineno])

\* Lines 291-302; r is the evaluated node.iter.
ForIterable(r, n, node) ==
    IF r.err # "" THEN Failed(r.s, r.err)
    ELSE IF r.val.t \in {"int", "bool", "none"} THEN Failed(r.s, "TypeError")
    ELSE IF node.targets[1].k # "Name" THEN Failed(r.s, "AttributeError")
    ELSE ForKnown([r.s EXCEPT !.call_stack[n].iterators =
                      (node.lineno :> LoopInfo(0, FALSE, node.body, r.val.items, 0)) @@ @],
                  n, node)

\* A `for` that evaluates node.iter at every dispatch and takes the next item
\* from what it finds there.
ForIterable_live(r, n, node) ==
    IF r.err # "" THEN Failed(r.s, r.err)
    ELSE IF r.val.t \in {"int", "bool", "none"} THEN Failed(r.s, "TypeError")
    ELSE IF node.targets[1].k # "Name" THEN Failed(r.s, "AttributeError")
    ELSE ForKnown([r.s EXCEPT !.call_stack[n].iterators =
                      (node.lineno :>
                         IF node.lineno \in DOMAIN r.s.call_stack[n].iterators
                         THEN [r.s.call_stack[n].iterators[node.lineno] EXCEPT
                                  !.iterable_list = r.val.items]
                         ELSE LoopInfo(0, FALSE, node.body, r.val.items, 0)) @@ @],
                  n, node)

DispatchFor_live(s, n, node) ==
    ForIterable_live(_evaluate_expression(s, node.value), n, node)

\* Lines 287-329.
DispatchFor(s, n, node) ==
    IF node.lineno \in DOMAIN s.call_stack[n].iterators
    THEN IF node.targets[1].k # "Name" THEN Failed(s, "AttributeError")
         ELSE ForKnown(s, n, node)
    ELSE ForIterable(_evaluate_expression(s, node.value), n, node)

IsUserCall(s, e) == e.k = "Call" /\ FuncIsName(e) /\ e.id \in DOMAIN s.functions

\* A return that drops the value of its expression.
Returned_discarding_value(r) ==
    IF r.err # "" THEN Failed(r.s, r.err) ELSE Done(_handle_return(r.s, NoneV))

\* Lines 217-219; r is the evaluated node.value.
Returned(r) == IF r.err # "" THEN Failed(r.s, r.err) ELSE Done(_handle_return(r.s, r.val))

\* Lines 199-329: the dispatch of the node under the pointer of frame n.
DispatchNode(s, n, node) ==
    CASE node.k \in {"Assign", "AugAssign"} ->
            IF IsUserCall(s, node.value)
            THEN _execute_call(SetAwaiting(s, n, node), node.value, node.lineno)
            ELSE Advance(_execute_assignment(s, node), n)
      [] node.k = "Expr" /\ node.value.k = "Call" ->
            IF ~FuncIsName(node.value) THEN Advance(Done(s), n)
            ELSE IF node.value.id = "print" THEN Advance(_execute_print(s, node.value), n)
            ELSE IF node.value.id \in DOMAIN s.functions
            THEN Advance(_execute_call(SetAwaiting(s, n, node), node.value, node.lineno), n)
            ELSE Advance(Done(s), n)
      [] node.k = "Return" -> Returned(_evaluate_expression(s, node.value))
      [] node.k = "If" -> DispatchIf(s, n, node)
      [] node.k = "While" -> DispatchWhile(s, n, node)
      [] node.k = "ClassDef" ->
            Done(AdvanceIp(Emit([s EXCEPT !.classes = (node.name :> node) @@ @],
                                Ev("class", node.lineno, 0, node.name, NoneV, "defined")),
                           n))
      [] node.k = "For" -> DispatchFor(s, n, node)
      [] OTHER -> Done(s)

\* Lines 335-336 and 192-193.
StartStepTimer(s) == IF s.is_running THEN [s EXCEPT !.step_timer = TRUE] ELSE s

\* A dispatch that reports the error and goes on with the run.
Dispatched_continuing(d, node) ==
    IF d.err # ""
    THEN StartStepTimer(Emit(d.s, Ev("error", node.lineno, 0, "", NoneV, d.err)))
    ELSE StartStepTimer(d.s)

\* Lines 330-336: the except clause and the timer; d is the outcome of the
\* dispatch of node.
Dispatched(d, node) ==
    IF d.err # ""
    THEN _finish_execution(Emit(d.s, Ev("error", node.lineno, 0, "", NoneV, d.err)))
    ELSE StartStepTimer(d.s)

\* Lines 196-199: the node under the pointer is highlighted and dispatched.
DispatchAt(s, n, node) ==
    Dispatched(DispatchNode(Executed(Emit(s, Ev("highlight", node.lineno, 0, "", NoneV, "")),
                                     node, "ip"),
                            n, node),
               node)

\* Lines 196-336: highlight, dispatch, the except clause, the timer.
DispatchTop(s, n) ==
    DispatchAt(s, n, FrameNodes(s, s.call_stack[n])[s.call_stack[n].ip + 1])

\* A step on a run that is not active which finishes the run once more.
Returned_at_once_finishing(s) == IF s.is_running THEN s ELSE _finish_execution(s)

\* Lines 174-177: the step returns at once; the history notes whether the
\* run was paused or not running.
Returned_at_once(s) ==
    [s EXCEPT !.seen = @ \cup {IF s.is_running THEN "step_while_paused"
                               ELSE "step_while_not_running"}]

\* Lines 173-336.
_next_step(s0) ==
    LET s == [s0 EXCEPT !.step_stmts = <<>>]
    IN IF s.is_paused \/ ~s.is_running \/ Len(s.call_stack) = 0
       THEN IF Len(s.call_stack) = 0 /\ s.is_running THEN _finish_execution(s)
            ELSE Returned_at_once(s)
       ELSE LET n == Len(s.call_stack)
                s1 == ResolveAwaiting(s, n)
                current_frame == s1.call_stack[n]
            IN IF current_frame.ip >= Len(FrameNodes(s1, current_frame))
               THEN StartStepTimer(_handle_return(s1, NoneV))
               ELSE DispatchTop(s1, n)

(***************************************************************************)
(* The programs drawn for the editor.  text is "" for an empty editor,     *)
(* "bad" for a text that does not parse; body is tree.body.                *)
(***************************************************************************)
Program(family, param, body) ==
    [family |-> family, param |-> param,
     text |-> IF body = <<>> THEN "" ELSE "ok", body |-> body]

Num(n) == Constant(IntV(n))

\* Straight-line programs: every sequence of at most MaxLen of these.
StraightStmts ==
    << Assign(0, "x", Num(1)),
       Assign(0, "y", BinOp(Name("x"), "Add", Num(2))),
       PrintStmt(0, <<Name("x")>>),
       AugAssign(0, "x", "Mult", Num(3)),
       PrintStmt(0, <<Name("y"), Num(7)>>) >>

StraightPrograms ==
    UNION { { Program("straight", n,
                      [i \in 1..n |-> [StraightStmts[c[i]] EXCEPT !.lineno = i]]) :
              c \in [1..n -> 1..Len(StraightStmts)] } : n \in 0..MaxLen }

\* def f(x): <body>    called as  t = f(a) / f(a) / an operand, after x = 1.
CalleeBodies ==
    { << Return(11, BinOp(Name("x"), "Add", Num(1))) >>,
      << Assign(11, "y", Num(0)), Return(12, BinOp(Name("x"), "Add", Num(1))) >>,
      << PrintStmt(11, <<Name("x")>>), Assign(12, "x", Num(7)), Return(13, Name("x")) >>,
      << Assign(11, "x", BinOp(Name("x"), "Add", Num(5))), PrintStmt(12, <<Name("x")>>) >> }

CallSites ==
    { << Assign(2, "t", Call("f", <<Num(2)>>)), PrintStmt(3, <<Name("x")>>) >>,
      << CallStmt(2, "f", <<Num(2)>>), PrintStmt(3, <<Name("x")>>) >>,
      << Assign(2, "t", BinOp(Num(0), "Add", Call("f", <<Num(2)>>))),
         PrintStmt(3, <<Name("x"), Name("t")>>) >>,
      << PrintStmt(2, <<Call("f", <<BinOp(Name("x"), "Add", Num(2))>>)>>),
         PrintStmt(3, <<Name("x")>>) >> }

CallPrograms ==
    { Program("call", 2, << FunctionDef(10, "f", <<"x">>, b), Assign(1, "x", Num(1)) >> \o c) :
        b \in CalleeBodies, c \in CallSites }

\* def fact(n): if n <= 1: return 1 / return n * fact(n - 1)
FactDef ==
    FunctionDef(10, "fact", <<"n">>,
        << If(11, Compare(Name("n"), <<"LtE">>, <<Num(1)>>), <<Return(12, Num(1))>>, <<>>),
           Return(13, BinOp(Name("n"), "Mult",
                            Call("fact", <<BinOp(Name("n"), "Sub", Num(1))>>))) >>)

MaxFact == 5

FactPrograms ==
    { Program("fact", N, << FactDef, Assign(1, "result", Call("fact", <<Num(N)>>)) >>) :
        N \in 1..MaxFact }
    \cup
    { Program("fact_operand", N,
              << FactDef, Assign(1, "result", BinOp(Num(1), "Mult", Call("fact", <<Num(N)>>))) >>) :
        N \in 1..MaxFact }

\* Loops of N iterations at module level and inside a function.
LoopPrograms ==
    UNION { { Program("for", N,
                << Assign(1, "s", Num(0)),
                   For(2, "i", Call("range", <<Num(N)>>),
                       << AugAssign(3, "s", "Add", Name("i")) >>),
                   PrintStmt(4, <<Name("s")>>) >>),
              Program("for_list", N,
                << For(1, "v", List([k \in 1..N |-> Num(10 * k)]),
                       << PrintStmt(2, <<Name("v")>>) >>),
                   PrintStmt(3, <<Num(0)>>) >>),
              Program("while", N,
                << Assign(1, "i", Num(0)),
                   While(2, Compare(Name("i"), <<"Lt">>, <<Num(N)>>),
                         << AugAssign(3, "i", "Add", Num(1)) >>),
                   PrintStmt(4, <<Name("i")>>) >>),
              Program("nested", N,
                << For(1, "i", Call("range", <<Num(N)>>),
                       << For(2, "j", Call("range", <<Num(2)>>),
                              << PrintStmt(3, <<Name("i"), Name("j")>>) >>) >>),
                   PrintStmt(4, <<Num(0)>>) >>),
              Program("for_in_function", N,
                << FunctionDef(10, "f", <<"n">>,
                       << PrintStmt(11, <<Name("n")>>),
                          For(12, "i", Call("range", <<Name("n")>>),
                              << PrintStmt(13, <<Name("i")>>) >>),
                          PrintStmt(14, <<Name("i")>>) >>),
                   CallStmt(1, "f", <<Num(N)>>),
                   PrintStmt(2, <<Num(0)>>) >>),
              Program("for_in_function_twice", N,
                << FunctionDef(10, "f", <<"n">>,
                       << PrintStmt(11, <<Name("n")>>),
                          For(12, "i", Call("range", <<Name("n")>>),
                              << PrintStmt(13, <<Name("i")>>) >>) >>),
                   CallStmt(1, "f", <<Num(N)>>),
                   CallStmt(2, "f", <<Num(N)>>),
                   PrintStmt(3, <<Num(0)>>) >>) } : N \in 0..MaxLoopN }

\* Boolean operators.
BoolOpPrograms ==
    { Program("boolop", 0, << Assign(1, "r", BoolOp(op, <<Constant(BoolV(b)), e>>)),
                           PrintStmt(2, <<Name("r")>>) >>) :
        op \in {"And", "Or"}, b \in BOOLEAN,
        e \in {Call("undefined_function", <<>>), Constant(BoolV(TRUE))} }

\* x = a / if x > 0: y = 2; z = 3 / else: y = 4 / print(y)
IfPrograms ==
    { Program("if", a,
              << Assign(1, "x", Num(a)),
                 If(2, Compare(Name("x"), <<"Gt">>, <<Num(0)>>),
                    << Assign(3, "y", Num(2)), Assign(4, "z", Num(3)) >>,
                    << Assign(5, "y", Num(4)) >>),
                 PrintStmt(6, <<Name("y")>>) >>) : a \in 0..1 }

\* def f(x): y = 0 / if x > 0: print(1) / else: print(2) / print(3)
\* f(a) / f(1 - a) / print(0)
IfTwicePrograms ==
    { Program("if_in_function_twice", a,
              << FunctionDef(10, "f", <<"x">>,
                     << Assign(11, "y", Num(0)),
                        If(12, Compare(Name("x"), <<"Gt">>, <<Num(0)>>),
                           << PrintStmt(13, <<Num(1)>>) >>,
                           << PrintStmt(14, <<Num(2)>>) >>),
                        PrintStmt(15, <<Num(3)>>) >>),
                 CallStmt(1, "f", <<Num(a)>>),
                 CallStmt(2, "f", <<Num(1 - a)>>),
                 PrintStmt(3, <<Num(0)>>) >>) : a \in 0..1 }

\* def f(x, y): z = 0 / print(x, y)
\* x = a / y = 7 / f(x + 2, x)  or  t = f(x + 2, x) / print(x, y)
CallArgsPrograms ==
    { Program("call_args", a,
              << FunctionDef(10, "f", <<"x", "y">>,
                     << Assign(11, "z", Num(0)),
                        PrintStmt(12, <<Name("x"), Name("y")>>) >>),
                 Assign(1, "x", Num(a)),
                 Assign(2, "y", Num(7)),
                 site,
                 PrintStmt(4, <<Name("x"), Name("y")>>) >>) :
        a \in 1..2,
        site \in { CallStmt(3, "f", <<BinOp(Name("x"), "Add", Num(2)), Name("x")>>),
                   Assign(3, "t", Call("f", <<BinOp(Name("x"), "Add", Num(2)),
                                              Name("x")>>)) } }

\* def f(x): z = 0 / return x + 1 / print(9)
\* def g(x): z = 0 / return / print(8)        (param 0)
\* def g(x): z = 0 / print(x)                 (param 1)
\* f(2) / g(5) / print(0)
ReturnPrograms ==
    { Program("return", p,
              << FunctionDef(10, "f", <<"x">>,
                     << Assign(11, "z", Num(0)),
                        Return(12, BinOp(Name("x"), "Add", Num(1))),
                        PrintStmt(13, <<Num(9)>>) >>),
                 FunctionDef(20, "g", <<"x">>,
                     << Assign(21, "z", Num(0)) >> \o
                     (IF p = 0 THEN << Return(22, NoExpr), PrintStmt(23, <<Num(8)>>) >>
                      ELSE << PrintStmt(22, <<Name("x")>>) >>)),
                 CallStmt(1, "f", <<Num(2)>>),
                 CallStmt(2, "g", <<Num(5)>>),
                 PrintStmt(3, <<Num(0)>>) >>) : p \in 0..1 }

\* xs = [10, .., 10 * N] / for v in xs: <body> ; print(v) / print(xs)
\*     for_rebind: xs = [0, 0, 0]      for_mutate: y = xs.append(99)
\* def mk(): return [10, .., 10 * N]
\* z = 0 / for v in mk(): z = v ; print(v) / print(z)      (for_call)
SnapshotPrograms ==
    UNION { { Program("for_rebind", n,
                << Assign(1, "xs", List([k \in 1..n |-> Num(10 * k)])),
                   For(2, "v", Name("xs"),
                       << Assign(3, "xs", List(<<Num(0), Num(0), Num(0)>>)),
                          PrintStmt(4, <<Name("v")>>) >>),
                   PrintStmt(5, <<Name("xs")>>) >>),
              Program("for_mutate", n,
                << Assign(1, "xs", List([k \in 1..n |-> Num(10 * k)])),
                   For(2, "v", Name("xs"),
                       << Assign(3, "y", MethodCall(Name("xs"), "append", <<Num(99)>>)),
                          PrintStmt(4, <<Name("v")>>) >>),
                   PrintStmt(5, <<Name("xs")>>) >>),
              Program("for_call", n,
                << FunctionDef(10, "mk", <<>>,
                       << Return(11, List([k \in 1..n |-> Num(10 * k)])) >>),
                   Assign(1, "z", Num(0)),
                   For(2, "v", Call("mk", <<>>),
                       << Assign(3, "z", Name("v")),
                          PrintStmt(4, <<Name("v")>>) >>),
                   PrintStmt(5, <<Name("z")>>) >>) } : n \in 1..MaxLoopN }

\* def f(n): z = 0 / for i in range(n): for j in range(2): print(i, j)
\* f(N) / f(N) / print(0)
NestedTwicePrograms ==
    { Program("nested_in_function_twice", n,
              << FunctionDef(10, "f", <<"n">>,
                     << Assign(11, "z", Num(0)),
                        For(12, "i", Call("range", <<Name("n")>>),
                            << For(13, "j", Call("range", <<Num(2)>>),
                                   << PrintStmt(14, <<Name("i"), Name("j")>>) >>) >>) >>),
                 CallStmt(1, "f", <<Num(n)>>),
                 CallStmt(2, "f", <<Num(n)>>),
                 PrintStmt(3, <<Num(0)>>) >>) : n \in 1..MaxLoopN }

\* def f(x): z = 0 / y = x / y += 1 / return y
\* s = f(a) + 0 / f(a) / print(s)
PathsPrograms ==
    { Program("paths", a,
              << FunctionDef(10, "f", <<"x">>,
                     << Assign(11, "z", Num(0)),
                        Assign(12, "y", Name("x")),
                        AugAssign(13, "y", "Add", Num(1)),
                        Return(14, Name("y")) >>),
                 Assign(1, "s", BinOp(Call("f", <<Num(a)>>), "Add", Num(0))),
                 CallStmt(2, "f", <<Num(a)>>),
                 PrintStmt(3, <<Name("s")>>) >>) : a \in 1..2 }

\* xs = [10, .., 10 * N] / xs.append(5) / print(xs)
MethodStmtPrograms ==
    { Program("method_stmt", n,
              << Assign(1, "xs", List([k \in 1..n |-> Num(10 * k)])),
                 ExprStmt(2, MethodCall(Name("xs"), "append", <<Num(5)>>)),
                 PrintStmt(3, <<Name("xs")>>) >>) : n \in 0..MaxLoopN }

\* def f(x): z = 0 / return x + 1
\* x = 5 / x += f(a) / print(x)
AugCallPrograms ==
    { Program("aug_call", a,
              << FunctionDef(10, "f", <<"x">>,
                     << Assign(11, "z", Num(0)),
                        Return(12, BinOp(Name("x"), "Add", Num(1))) >>),
                 Assign(1, "x", Num(5)),
                 AugAssign(2, "x", "Add", Call("f", <<Num(a)>>)),
                 PrintStmt(3, <<Name("x")>>) >>) : a \in 1..2 }

\* t = f(1) + 0 / p = P(2) / print(t) / def f(x): return x + 1
\* class P: def __init__(self, a): self.a = a
UseBeforeDefPrograms ==
    { Program("use_before_def", 0,
              << Assign(1, "t", BinOp(Call("f", <<Num(1)>>), "Add", Num(0))),
                 Assign(2, "p", Call("P", <<Num(2)>>)),
                 PrintStmt(3, <<Name("t")>>),
                 FunctionDef(10, "f", <<"x">>,
                             << Return(11, BinOp(Name("x"), "Add", Num(1))) >>),
                 ClassDef(20, "P",
                          << FunctionDef(21, "__init__", <<"self", "a">>,
                                 << AssignTo(22, Attribute(Name("self"), "a"),
                                             Name("a")) >>) >>) >>) }

\* class Q:
\*     def __init__(self, a, b):
\*         self.x = b / y = a / if a > b: self.z = 1 / self.x = a / self.y = a - b
\* q = Q(5, 3)  or  q = Q(3, 5) / print(0)
ClassTwoPrograms ==
    { Program("class_two", a,
              << ClassDef(1, "Q",
                          << FunctionDef(2, "__init__", <<"self", "a", "b">>,
                                 << AssignTo(3, Attribute(Name("self"), "x"), Name("b")),
                                    Assign(4, "y", Name("a")),
                                    If(5, Compare(Name("a"), <<"Gt">>, <<Name("b")>>),
                                       << AssignTo(6, Attribute(Name("self"), "z"),
                                                   Num(1)) >>, <<>>),
                                    AssignTo(7, Attribute(Name("self"), "x"), Name("a")),
                                    AssignTo(8, Attribute(Name("self"), "y"),
                                             BinOp(Name("a"), "Sub", Name("b"))) >>) >>),
                 Assign(10, "q", Call("Q", <<Num(a), Num(8 - a)>>)),
                 PrintStmt(11, <<Num(0)>>) >>) : a \in {3, 5} }

\* def f(x): return x + 1
\* r = a OP1 b < c / print(r)      with c one of 0, 3, undefined_name, f(2)
ChainPrograms ==
    { Program("chain", a,
              << FunctionDef(10, "f", <<"x">>,
                             << Return(11, BinOp(Name("x"), "Add", Num(1))) >>),
                 Assign(1, "r", Compare(Num(a), <<op1, "Lt">>, <<Num(b), c>>)),
                 PrintStmt(2, <<Name("r")>>) >>) :
        a \in 1..2, b \in 1..2, op1 \in {"Lt", "LtE", "Eq"},
        c \in {Num(0), Num(3), Name("undefined_name"), Call("f", <<Num(2)>>)} }

\* d = {k1: 1, k2: None, ..} / print(0)      for the key sets below
DictKeys ==
    << <<"value", "left", "right">>, <<"value", "children">>, <<"value">>,
       <<"val", "left", "right">>, <<"key", "left", "right">>, <<"data", "children">>,
       <<"data", "left">>, <<"left", "right">>, <<"name", "age">>, <<>> >>

DictPrograms ==
    { Program("dict", c,
              << Assign(1, "d", Dict([i \in 1..Len(DictKeys[c]) |->
                                         Constant(StrV(DictKeys[c][i]))],
                                     [i \in 1..Len(DictKeys[c]) |->
                                         IF i = 1 THEN Num(1) ELSE Constant(NoneV)])),
                 PrintStmt(2, <<Num(0)>>) >>) : c \in 1..Len(DictKeys) }

\* def g(x): return x + undefined_name
\* def f(x): z = 0 / y = g(x) + 0 / print(y)
\* f(1)  or  t = f(1) + 0 / print(0)
ErrorInSyncPrograms ==
    { Program("error_in_sync", k,
              << FunctionDef(20, "g", <<"x">>,
                     << Return(21, BinOp(Name("x"), "Add", Name("undefined_name"))) >>),
                 FunctionDef(10, "f", <<"x">>,
                     << Assign(11, "z", Num(0)),
                        Assign(12, "y", BinOp(Call("g", <<Name("x")>>), "Add", Num(0))),
                        PrintStmt(13, <<Name("y")>>) >>),
                 IF k = 0 THEN CallStmt(1, "f", <<Num(1)>>)
                 ELSE Assign(1, "t", BinOp(Call("f", <<Num(1)>>), "Add", Num(0))),
                 PrintStmt(2, <<Num(0)>>) >>) : k \in 0..1 }

\* def f(n): y = 0 / if n > 0: f(n - 1) / else: print(9) / print(n)
\* f(a) / print(0): a function that calls itself at statement level from
\* one branch of an `if` and prints from the other.
RecurseIfPrograms ==
    { Program("recurse_if", a,
              << FunctionDef(10, "f", <<"n">>,
                     << Assign(11, "y", Num(0)),
                        If(12, Compare(Name("n"), <<"Gt">>, <<Num(0)>>),
                           << CallStmt(13, "f", <<BinOp(Name("n"), "Sub", Num(1))>>) >>,
                           << PrintStmt(14, <<Num(9)>>) >>),
                        PrintStmt(15, <<Name("n")>>) >>),
                 CallStmt(1, "f", <<Num(a)>>),
                 PrintStmt(2, <<Num(0)>>) >>) : a \in 1..2 }

\* def f(x): return x + 1
\* class P:
\*     def __init__(self, a): self.a = a; print(a); self.b = <value>
\* p = P(2) / print(0)
InitValues ==
    << BinOp(Name("a"), "Add", Num(1)), Call("f", <<Name("a")>>), Name("undefined") >>

ClassPrograms ==
    { Program("class", c,
              << FunctionDef(10, "f", <<"x">>,
                             << Return(11, BinOp(Name("x"), "Add", Num(1))) >>),
                 ClassDef(1, "P",
                          << FunctionDef(2, "__init__", <<"self", "a">>,
                                         << AssignTo(3, Attribute(Name("self"), "a"), Name("a")),
                                            PrintStmt(4, <<Name("a")>>),
                                            AssignTo(5, Attribute(Name("self"), "b"),
                                                     InitValues[c]) >>) >>),
                 Assign(6, "p", Call("P", <<Num(2)>>)),
                 PrintStmt(7, <<Num(0)>>) >>) : c \in 1..Len(InitValues) }

\* r = (a op1 b) op2 c  and  r = a op2 (b - c), over the constants 1..MaxConst.
\* Not drawn: a negative exponent (a float result) and a power of a power
\* with an outer exponent above 2 (a result beyond the integers of TLC).
ArithOps == {"Add", "Sub", "Mult", "FloorDiv", "Mod", "Pow"}
ArithConsts == (1..MaxConst) \X (1..MaxConst) \X (1..MaxConst)

ArithPrograms ==
    { Program("arith", 0,
              << Assign(1, "r", BinOp(BinOp(Num(x[1][1]), x[2], Num(x[1][2])),
                                      x[3], Num(x[1][3]))) >>) :
        x \in {y \in ArithConsts \X ArithOps \X ArithOps :
                  (y[2] = "Pow" /\ y[3] = "Pow") => y[1][3] <= 2} }
    \cup
    { Program("arith", 1,
              << Assign(1, "r", BinOp(Num(x[1][1]), x[2],
                                      BinOp(Num(x[1][2]), "Sub", Num(x[1][3])))) >>) :
        x \in {y \in ArithConsts \X ArithOps : y[2] = "Pow" => y[1][2] >= y[1][3]} }

\* Statements whose dispatch raises: an undefined name, a division by zero,
\* a type mismatch, an unsupported expression, an unknown function inside
\* an expression, an undefined name in the test of an if.
ErrorStmts ==
    << PrintStmt(0, <<Name("y")>>),
       Assign(0, "z", BinOp(Num(1), "FloorDiv", Num(0))),
       Assign(0, "z", BinOp(List(<<Num(1)>>), "Sub", Num(1))),
       Assign(0, "z", BoolOp("Or", <<Num(0), Num(1)>>)),
       Assign(0, "z", Call("foo", <<>>)),
       If(0, Name("y"), << Assign(4, "z", Num(1)) >>, <<>>) >>

\* <bad> / print(1)   and   x = 1 / <bad> / print(x)
ErrorPrograms ==
    { Program("error", k, << [ErrorStmts[k] EXCEPT !.lineno = 1],
                             PrintStmt(2, <<Num(1)>>) >>) : k \in 1..Len(ErrorStmts) }
    \cup
    { Program("error", k, << Assign(1, "x", Num(1)),
                             [ErrorStmts[k] EXCEPT !.lineno = 2],
                             PrintStmt(3, <<Name("x")>>) >>) : k \in 1..Len(ErrorStmts) }

\* x = foo() / print(0)   and   foo() / print(0), foo defined nowhere
UnknownCallPrograms ==
    { Program("unknown_call", 1, << Assign(1, "x", Call("foo", <<>>)),
                                    PrintStmt(2, <<Num(0)>>) >>),
      Program("unknown_call", 2, << CallStmt(1, "foo", <<>>),
                                    PrintStmt(2, <<Num(0)>>) >>) }

\* x = 1 / <statement of a kind without a branch> / print(x)
UnsupportedStmts ==
    << Pass(2), Break(2), Continue(2), ExprStmt(2, Name("x")),
       Try(2, << Assign(3, "x", Num(2)) >>) >>

UnsupportedPrograms ==
    { Program("unsupported", k, << Assign(1, "x", Num(1)), UnsupportedStmts[k],
                                   PrintStmt(4, <<Name("x")>>) >>) :
        k \in 1..Len(UnsupportedStmts) }

\* def f(n): x = 0; f(n)  /  f(0): a recursion without a base case,
\* dispatched at statement level.
RecursePrograms ==
    { Program("recurse", 0,
              << FunctionDef(10, "f", <<"n">>,
                             << Assign(11, "x", Num(0)),
                                CallStmt(12, "f", <<Name("n")>>) >>),
                 CallStmt(1, "f", <<Num(0)>>) >>) }

\* A text ast.parse rejects.
UnparsablePrograms ==
    { [family |-> "unparsable", param |-> 0, text |-> "bad", body |-> <<>>] }

Programs ==
    ErrorPrograms \cup UnknownCallPrograms \cup UnsupportedPrograms \cup RecursePrograms
    \cup UnparsablePrograms \cup ArithPrograms \cup StraightPrograms \cup CallPrograms \cup FactPrograms \cup LoopPrograms
    \cup BoolOpPrograms \cup IfPrograms \cup IfTwicePrograms \cup CallArgsPrograms \cup ReturnPrograms
    \cup SnapshotPrograms \cup NestedTwicePrograms \cup PathsPrograms
    \cup MethodStmtPrograms \cup AugCallPrograms \cup UseBeforeDefPrograms
    \cup ClassTwoPrograms \cup ChainPrograms \cup DictPrograms
    \cup ErrorInSyncPrograms \cup RecurseIfPrograms
    \cup ClassPrograms

(***************************************************************************)
(* start(), pause(), resume(), stop() and the timer callbacks.             *)
(***************************************************************************)
\* FunctionFinder (lines 1095-1100): visit_FunctionDef registers the node
\* and does not descend; every other statement is visited generically.
RECURSIVE FunctionFinder(_, _)
FunctionFinder(stmts, found) ==
    IF Len(stmts) = 0 THEN found
    ELSE LET node == stmts[1]
             here == IF node.k = "FunctionDef" THEN (node.name :> node) @@ found
                     ELSE FunctionFinder(node.orelse, FunctionFinder(node.body, found))
         IN FunctionFinder(Tail(stmts), here)

\* [node for node in tree.body if not isinstance(node, ast.FunctionDef)]
RECURSIVE MainBodyNodes(_)
MainBodyNodes(stmts) ==
    IF Len(stmts) = 0 THEN <<>>
    ELSE IF stmts[1].k = "FunctionDef" THEN MainBodyNodes(Tail(stmts))
    ELSE <<stmts[1]>> \o MainBodyNodes(Tail(stmts))

NoResolve == [owner |-> 0, top |-> 0, line |-> 0]

\* A start() that treats a text that does not parse as an empty module.
start_ignoring_syntax_error(s0) ==
    [s0 EXCEPT !.is_running = TRUE, !.is_paused = FALSE,
               !.events = <<>>, !.scope_timers = <<>>, !.scope_count = 0,
               !.scopes_removed = {},
               !.classes = <<>>, !.functions = FunctionFinder(s0.code_editor.body, <<>>),
               !.call_stack = <<CallFrame("<module>",
                                          OwnList(MainBodyNodes(s0.code_editor.body)), 0)>>,
               !.awaiting_return_value = NoNode, !.awaiting_frame = 0,
               !.last_resolve = NoResolve, !.step_stmts = <<>>, !.seen = {},
               !.return_value_at_start = s0.return_value,
               !.single_shots = @ + 1]

\* Lines 57-94, called with is_running false.
start(s0) ==
    LET s == [s0 EXCEPT !.is_running = TRUE, !.is_paused = FALSE,
                        !.events = <<>>, !.scope_timers = <<>>, !.scope_count = 0,
                        !.scopes_removed = {},
                        !.classes = <<>>, !.functions = <<>>, !.call_stack = <<>>,
                        !.awaiting_return_value = NoNode, !.awaiting_frame = 0,
                        !.last_resolve = NoResolve, !.step_stmts = <<>>, !.seen = {},
                        !.return_value_at_start = s0.return_value]
    IN IF s.code_editor.text = "" THEN [s EXCEPT !.is_running = FALSE]
       ELSE IF s.code_editor.text = "bad"
       THEN Emit([s EXCEPT !.is_running = FALSE], Ev("error", 0, 0, "", NoneV, "SyntaxError"))
       ELSE [s EXCEPT !.functions = FunctionFinder(s.code_editor.body, <<>>),
                      !.call_stack = <<CallFrame("<module>",
                                                 OwnList(MainBodyNodes(s.code_editor.body)), 0)>>,
                      !.single_shots = @ + 1]

\* Lines 154-158.
pause(s) == [s EXCEPT !.is_paused = TRUE, !.step_timer = FALSE]

\* A resume that continues with the statement after the pending one.
resume_skipping(s) ==
    _next_step([s EXCEPT !.is_paused = FALSE, !.seen = @ \cup {"resumed"},
                         !.call_stack[Len(s.call_stack)].ip = @ + 1])

\* Lines 160-164.
resume(s) == _next_step([s EXCEPT !.is_paused = FALSE, !.seen = @ \cup {"resumed"}])

\* Lines 1034-1040.
stop(s) == [s EXCEPT !.is_running = FALSE, !.is_paused = FALSE, !.step_timer = FALSE]

Set(s) ==
    /\ code_editor' = s.code_editor
    /\ is_running' = s.is_running
    /\ is_paused' = s.is_paused
    /\ functions' = s.functions
    /\ classes' = s.classes
    /\ call_stack' = s.call_stack
    /\ return_value' = s.return_value
    /\ awaiting_return_value' = s.awaiting_return_value
    /\ step_timer' = s.step_timer
    /\ single_shots' = s.single_shots
    /\ scope_timers' = s.scope_timers
    /\ scope_count' = s.scope_count
    /\ scopes_removed' = s.scopes_removed
    /\ ticks' = s.ticks
    /\ events' = s.events
    /\ awaiting_frame' = s.awaiting_frame
    /\ last_resolve' = s.last_resolve
    /\ step_stmts' = s.step_stmts
    /\ seen' = s.seen
    /\ return_value_at_start' = s.return_value_at_start

Init ==
    /\ code_editor \in Programs
    /\ is_running = FALSE
    /\ is_paused = FALSE
    /\ functions = <<>>
    /\ classes = <<>>
    /\ call_stack = <<>>
    /\ return_value = NoneV
    /\ awaiting_return_value = NoNode
    /\ step_timer = FALSE
    /\ single_shots = 0
    /\ scope_timers = <<>>
    /\ scope_count = 0
    /\ scopes_removed = {}
    /\ ticks = 0
    /\ events = <<>>
    /\ awaiting_frame = 0
    /\ last_resolve = NoResolve
    /\ step_stmts = <<>>
    /\ seen = {}
    /\ return_value_at_start = NoneV

\* The user presses Visualize.
Start ==
    /\ ~is_running
    /\ single_shots < MaxShots
    /\ \E s \in {start(State)} : Set(s)

\* History: the callback of line 94 finds a run it will step.
InitialCallback(s) ==
    IF s.is_running /\ ~s.is_paused /\ s.call_stack # <<>>
    THEN [s EXCEPT !.seen = @ \cup {"initial"}] ELSE s

\* The single shot of line 94 fires.
SingleShot ==
    /\ single_shots > 0
    /\ Len(call_stack) < MaxStack
    /\ \E s \in {_next_step(InitialCallback([State EXCEPT !.single_shots = @ - 1,
                                                               !.ticks = 1 - @]))} : Set(s)

\* step_timer times out.
StepTimeout ==
    /\ step_timer
    /\ Len(call_stack) < MaxStack
    /\ \E s \in {_next_step([State EXCEPT !.step_timer = FALSE, !.ticks = 1 - @])} : Set(s)

Pause ==
    /\ is_running /\ ~is_paused
    /\ \E s \in {pause(State)} : Set(s)

Resume ==
    /\ is_running /\ is_paused
    /\ Len(call_stack) < MaxStack
    /\ \E s \in {resume(State)} : Set(s)

Stop ==
    /\ is_running
    /\ \E s \in {stop(State)} : Set(s)

\* A delayed scope_widget.remove_animated of line 416 fires.
ScopeTimeout ==
    /\ Len(scope_timers) > 0
    /\ \E s \in {[State EXCEPT !.scope_timers = Tail(@),
                                  !.scopes_removed = @ \cup {Head(scope_timers)}]} : Set(s)

Next ==
    \/ Start
    \/ SingleShot
    \/ StepTimeout
    \/ Pause
    \/ Resume
    \/ Stop
    \/ ScopeTimeout

Spec == Init /\ [][Next]_vars

\* A timer event is delivered: SingleShot and StepTimeout are the only
\* actions that change ticks.
TimerEvent == ticks' = 1 - ticks

\* Qt delivers the event of a timer that stays armed: the initial single shot
\* and the timeouts of step_timer.
FairSpec ==
    /\ Spec
    /\ WF_ticks(single_shots > 0 /\ TimerEvent)
    /\ WF_ticks(step_timer /\ TimerEvent)

(***************************************************************************)
(* Starting again while the single shot of an earlier start() is still     *)
(* pending: QTimer.singleShot (line 94) returns no timer object, so stop() *)
(* (lines 1034-1040) has nothing to cancel and the callback stays queued.  *)
(***************************************************************************)
RestartFamilies == {"straight", "error_in_sync"}

RestartInit == Init /\ code_editor.family \in RestartFamilies

\* The user presses Visualize, also with an earlier single shot pending.
Restart ==
    /\ ~is_running
    /\ single_shots < MaxRestartShots
    /\ \E s \in {start(State)} : Set(s)

RestartNext ==
    \/ Restart
    \/ SingleShot
    \/ StepTimeout
    \/ Pause
    \/ Resume
    \/ Stop
    \/ ScopeTimeout

RestartSpec == RestartInit /\ [][RestartNext]_vars

(***************************************************************************)
(* Properties.  The log `events` is read only while it is not full.        *)
(***************************************************************************)
Family == code_editor.family
Main == MainBodyNodes(code_editor.body)
LogOpen == Len(events) < MaxLog
Count(e, line) ==
    Cardinality({i \in 1..Len(events) : events[i].e = e /\ events[i].line = line})
CountOf(e) == Cardinality({i \in 1..Len(events) : events[i].e = e})

\* x = 1 / t = f(2) / print(x), with f user-defined
AssignCallSite ==
    Family = "call" /\ Main[2].k = "Assign" /\ Main[2].value.k = "Call"

\* C1: for the statement-level assignment t = f(args) the value is bound to t
\* in the caller's frame and never in the callee's, the caller's pointer then
\* goes past the assignment, and the assignment is dispatched exactly once.
C1_AssignFromCallBindsInCaller ==
    (AssignCallSite /\ LogOpen) =>
        /\ \A i \in 2..Len(call_stack) : "t" \notin DOMAIN call_stack[i].locals
        /\ Count("highlight", 2) <= 1
        /\ (Len(call_stack) >= 1 /\ call_stack[1].ip >= 2) =>
               "t" \in DOMAIN call_stack[1].locals

SupportedFamilies ==
    {"straight", "call", "fact", "fact_operand", "for", "for_list", "while", "nested",
     "for_in_function", "for_in_function_twice", "if"}

\* C2: a run of a program built only from supported statements, stepped by
\* the timers, eventually finishes (is_running becomes false); a pause
\* suspends the obligation.
C2_RunsTerminate ==
    []((is_running /\ ~is_paused /\ Family \in SupportedFamilies)
           => <>(~is_running \/ is_paused))

\* C3: the pending-return marker is resolved only with the frame that set it
\* on top of the stack, never while the callee frame is the top frame.
C3_MarkerResolvedInOwnerFrame ==
    last_resolve # NoResolve => last_resolve.top = last_resolve.owner

\* C4: while a run is active the call stack is non-empty, its bottom frame
\* is the <module> frame, and no frame above it is a <module> frame.
C4_ModuleFrameAtBottom ==
    is_running =>
        /\ Len(call_stack) >= 1
        /\ call_stack[1].name = "<module>"
        /\ \A i \in 2..Len(call_stack) : call_stack[i].name # "<module>"

\* A function frame has been popped by _handle_return and the run goes on
\* with the module frame alone.
C4_Witness ==
    /\ is_running
    /\ Len(call_stack) = 1
    /\ CountOf("close") >= 1

IpStatements == {i \in 1..Len(step_stmts) : step_stmts[i].via = "ip"}

\* C5 as written: no step executes two statements of the stepped program.
C5_OneStatementPerStep == Len(step_stmts) <= 1

\* C5: a step dispatches at most one statement through a frame's
\* instruction pointer, and it is the first statement the step executes; all
\* further statements of the step are body statements of functions called
\* synchronously from that statement's expressions.
C5_OneDispatchPerStep ==
    /\ Cardinality(IpStatements) <= 1
    /\ IpStatements \subseteq {1}
    /\ step_stmts # <<>> => step_stmts[1].via = "ip"

\* A step that dispatched one statement whose expression called a function
\* synchronously, and a step that dispatched an `if`.
C5_Witness ==
    /\ Len(step_stmts) >= 2
    /\ step_stmts[1].via = "ip"
    /\ step_stmts[2].via = "sync"

N == code_editor.param

RECURSIVE Factorial(_)
Factorial(n) == IF n <= 1 THEN 1 ELSE n * Factorial(n - 1)

Closes == {i \in 1..Len(events) : events[i].e = "close"}
OpensBefore(k) == Cardinality({i \in 1..(k - 1) : events[i].e = "open"})
Finished == CountOf("finished") >= 1

\* C6: for result = fact(N) at module level, N scopes are opened before the
\* first scope is closed, `result` is bound in the module frame only and to
\* N!, and the finished run holds result = N! in the module frame.
C6_FactorialDelivered ==
    (Family = "fact" /\ LogOpen) =>
        /\ \A c \in Closes : (\A d \in Closes : c <= d) => OpensBefore(c) = N
        /\ scopes_removed # {} => CountOf("open") >= N
        /\ \A i \in 1..Len(events) :
               (events[i].e = "var" /\ events[i].name = "result") =>
                   events[i].scope = 0 /\ events[i].val = IntV(Factorial(N))
        /\ Finished => /\ "result" \in DOMAIN call_stack[1].locals
                       /\ call_stack[1].locals["result"] = IntV(Factorial(N))

LoopFamilies == {"for", "for_list", "while", "for_in_function", "for_in_function_twice"}
InFunction == Family \in {"for_in_function", "for_in_function_twice"}
LoopLine ==
    CASE Family \in {"for", "while"} -> 2
      [] Family = "for_list" -> 1
      [] OTHER -> 12
BodyLine == LoopLine + 1
\* executions of the loop statement so far: one per activation of f
LoopRuns == IF InFunction THEN CountOf("open") ELSE 1
LastValue ==
    CASE Family = "for" -> [name |-> "i", val |-> IntV(N - 1)]
      [] Family = "for_list" -> [name |-> "v", val |-> IntV(10 * N)]
      [] OTHER -> [name |-> "i", val |-> IntV(N)]

\* C7: per execution of a loop statement of N iterations the loop node is
\* dispatched N times with its body spliced in, the body runs N times, and
\* one more dispatch ends the loop; afterwards the loop variable holds the
\* last item (for) or what the body last assigned (while).
C7_LoopDispatchedNPlusOne ==
    (Family \in LoopFamilies /\ LogOpen) =>
        /\ Count("highlight", LoopLine) <= LoopRuns * (N + 1)
        /\ Count("loop", LoopLine) <= LoopRuns * N
        /\ Count("highlight", BodyLine) <= LoopRuns * N
        /\ Count("loop_end", LoopLine) <= LoopRuns
        /\ (LoopRuns >= 1 /\ Count("loop_end", LoopLine) = LoopRuns) =>
               /\ Count("highlight", LoopLine) = LoopRuns * (N + 1)
               /\ Count("loop", LoopLine) = LoopRuns * N
               /\ Count("highlight", BodyLine) = LoopRuns * N
               /\ (~InFunction /\ N >= 1) =>
                      /\ LastValue.name \in DOMAIN call_stack[1].locals
                      /\ call_stack[1].locals[LastValue.name] = LastValue.val

(***************************************************************************)
(* A plain top-to-bottom execution of straight-line statements: the        *)
(* sequence of side effects, ending at the first statement that fails.     *)
(***************************************************************************)
RefOk(n) == [ok |-> TRUE, n |-> n]
RefFail == [ok |-> FALSE, n |-> 0]

RECURSIVE RefValue(_, _)
RefValue(env, e) ==
    CASE e.k = "Constant" -> RefOk(e.value.v)
      [] e.k = "Name" -> IF e.id \in DOMAIN env THEN RefOk(env[e.id]) ELSE RefFail
      [] e.k = "BinOp" ->
            LET l == RefValue(env, e.args[1])
                r == RefValue(env, e.args[2])
            IN IF ~l.ok \/ ~r.ok THEN RefFail
               ELSE IF e.ops[1] = "Add" THEN RefOk(l.n + r.n) ELSE RefOk(l.n * r.n)
      [] OTHER -> RefFail

RefVar(name, n) ==
    [e |-> "var", name |-> name, val |-> IntV(n), txt |-> "SmartVariableWidget"]
RefOut(txt) == [e |-> "print", name |-> "", val |-> NoneV, txt |-> txt]

RECURSIVE RefRun(_, _, _)
RefRun(stmts, i, env) ==
    IF i > Len(stmts) THEN <<>>
    ELSE LET st == stmts[i]
         IN CASE st.k = "Assign" ->
                    LET r == RefValue(env, st.value)
                    IN IF ~r.ok THEN <<>>
                       ELSE <<RefVar(st.targets[1].id, r.n)>>
                            \o RefRun(stmts, i + 1, (st.targets[1].id :> r.n) @@ env)
              [] st.k = "AugAssign" ->
                    LET r == RefValue(env, BinOp(st.targets[1], st.op, st.value))
                    IN IF ~r.ok THEN <<>>
                       ELSE <<RefVar(st.targets[1].id, r.n)>>
                            \o RefRun(stmts, i + 1, (st.targets[1].id :> r.n) @@ env)
              [] OTHER ->
                    LET rs == [j \in 1..Len(st.value.args) |-> RefValue(env, st.value.args[j])]
                    IN IF \E j \in 1..Len(rs) : ~rs[j].ok THEN <<>>
                       ELSE <<RefOut(JoinStr([j \in 1..Len(rs) |-> ToString(rs[j].n)], " "))>>
                            \o RefRun(stmts, i + 1, env)

IsEffect(ev) == ev.e \in {"var", "print"}
IsHighlight(ev) == ev.e = "highlight"
Effects ==
    LET es == SelectSeq(events, IsEffect)
    IN [i \in 1..Len(es) |->
           [e |-> es[i].e, name |-> es[i].name, val |-> es[i].val, txt |-> es[i].txt]]
Highlights == SelectSeq(events, IsHighlight)
IsPrefix(xs, ys) == Len(xs) <= Len(ys) /\ xs = SubSeq(ys, 1, Len(xs))

\* C8: a module-level program of straight-line assignments and prints is
\* dispatched top to bottom, each statement once and one per step, and its
\* variable updates and outputs are those of a plain top-to-bottom execution,
\* in the same order.
C8_StraightLineInSourceOrder ==
    (Family = "straight" /\ LogOpen) =>
        /\ \A i \in 1..Len(Highlights) : Highlights[i].line = i
        /\ Len(step_stmts) <= 1
        /\ Len(Highlights) - 1 <= Len(Effects) /\ Len(Effects) <= Len(Highlights)
        /\ IsPrefix(Effects, RefRun(Main, 1, <<>>))
        /\ Finished => Effects = RefRun(Main, 1, <<>>)

\* A straight-line program of at least two statements has run to its end
\* without an error.
C8_Witness ==
    /\ Family = "straight"
    /\ Finished
    /\ CountOf("error") = 0
    /\ Len(Effects) >= 2
    /\ Len(Effects) = Len(Main)

\* C9: with x = 1 bound at module level and f(x) called with another
\* argument, the module frame's x stays 1 during and after the call, and no
\* update of x is ever shown in the module scope with another value.
C9_ModuleBindingUntouched ==
    (Family = "call" /\ Len(call_stack) >= 1 /\ call_stack[1].ip >= 1) =>
        /\ "x" \in DOMAIN call_stack[1].locals
        /\ call_stack[1].locals["x"] = IntV(1)
        /\ \A i \in 1..Len(events) :
               (events[i].e = "var" /\ events[i].name = "x" /\ events[i].scope = 0)
                   => events[i].val = IntV(1)

\* f bound its parameter x to 2, assigned x = 7 in its body and has
\* returned; the module frame is alone on the stack again.
C9_Witness ==
    /\ Family = "call"
    /\ Len(call_stack) = 1
    /\ call_stack[1].ip >= 2
    /\ \E i \in 1..Len(events) :
           events[i].e = "var" /\ events[i].name = "x" /\ events[i].scope # 0
           /\ events[i].val = IntV(2)
    /\ \E i \in 1..Len(events) :
           events[i].e = "var" /\ events[i].name = "x" /\ events[i].scope # 0
           /\ events[i].val = IntV(7)

\* r = b and e / r = b or e where the first operand b decides
FirstOperandDecides ==
    /\ Family = "boolop"
    /\ Main[1].value.ops[1] = (IF Truthy(Main[1].value.args[1].value) THEN "Or" ELSE "And")

\* C10: a boolean and/or whose first operand decides evaluates to that
\* operand without evaluating the others, so r = False and undefined_function()
\* binds r to False and raises no error.
C10_BoolOpShortCircuits ==
    (FirstOperandDecides /\ LogOpen) =>
        /\ CountOf("error") = 0
        /\ (Len(call_stack) >= 1 /\ call_stack[1].ip >= 1) =>
               /\ "r" \in DOMAIN call_stack[1].locals
               /\ call_stack[1].locals["r"] = Main[1].value.args[1].value

(***************************************************************************)
(* Integer arithmetic of the host, defined by the properties of the        *)
(* operations: the floor quotient q of a by b is the integer with          *)
(* q*b <= a < (q+1)*b for b > 0 and q*b >= a > (q+1)*b for b < 0.          *)
(***************************************************************************)
Abs(a) == IF a < 0 THEN 0 - a ELSE a

HostFloorDiv(a, b) ==
    CHOOSE q \in (0 - Abs(a) - 1)..(Abs(a) + 1) :
        IF b > 0 THEN q * b <= a /\ a < (q + 1) * b
        ELSE q * b >= a /\ a > (q + 1) * b

RECURSIVE HostPow(_, _)
HostPow(a, n) == IF n = 0 THEN 1 ELSE a * HostPow(a, n - 1)

\* The value of an expression of constants and binary operators;
\* ok is false where the host raises or leaves the integers.
RECURSIVE HostValue(_)
HostValue(e) ==
    IF e.k = "Constant" THEN [ok |-> TRUE, v |-> e.value.v]
    ELSE LET l == HostValue(e.args[1])
             r == HostValue(e.args[2])
             op == e.ops[1]
         IN IF ~l.ok \/ ~r.ok THEN [ok |-> FALSE, v |-> 0]
            ELSE CASE op = "Add" -> [ok |-> TRUE, v |-> l.v + r.v]
                   [] op = "Sub" -> [ok |-> TRUE, v |-> l.v - r.v]
                   [] op = "Mult" -> [ok |-> TRUE, v |-> l.v * r.v]
                   [] op = "FloorDiv" ->
                        IF r.v = 0 THEN [ok |-> FALSE, v |-> 0]
                        ELSE [ok |-> TRUE, v |-> HostFloorDiv(l.v, r.v)]
                   [] op = "Mod" ->
                        IF r.v = 0 THEN [ok |-> FALSE, v |-> 0]
                        ELSE [ok |-> TRUE, v |-> l.v - r.v * HostFloorDiv(l.v, r.v)]
                   [] op = "Pow" ->
                        IF r.v < 0 THEN [ok |-> FALSE, v |-> 0]
                        ELSE [ok |-> TRUE, v |-> HostPow(l.v, r.v)]

\* C11: once the assignment r = <expression of integer constants and
\* +, -, *, //, %, **> has been dispatched, r holds exactly the value of the
\* host's integer arithmetic (floor semantics of // and %), and no error
\* was raised.
C11_ArithmeticMatchesHost ==
    (Family = "arith" /\ Count("highlight", 1) >= 1 /\ HostValue(Main[1].value).ok) =>
        /\ CountOf("error") = 0
        /\ Len(call_stack) >= 1
        /\ "r" \in DOMAIN call_stack[1].locals
        /\ call_stack[1].locals["r"] = IntV(HostValue(Main[1].value).v)

\* r = (1 - 2) // 3 has been evaluated to -1 and r = 3 % (1 - 3) to -1.
C11_Witness ==
    /\ Family = "arith"
    /\ Len(call_stack) >= 1
    /\ "r" \in DOMAIN call_stack[1].locals
    /\ call_stack[1].locals["r"] = IntV(-1)
    /\ Main[1].value \in
         { BinOp(BinOp(Num(1), "Sub", Num(2)), "FloorDiv", Num(3)),
           BinOp(Num(3), "Mod", BinOp(Num(1), "Sub", Num(3))) }

\* The first statement of the program is print(y), y assigned nowhere.
UndefinedNameFirst == Family = "error" /\ Main[1] = PrintStmt(1, <<Name("y")>>)

\* C12: a program whose first statement reads a never-assigned name shows no
\* variable, prints nothing, opens and closes no scope, and the step that
\* dispatches the statement ends the run with exactly one runtime diagnostic.
C12_UndefinedNameAborts ==
    UndefinedNameFirst =>
        /\ CountOf("var") = 0 /\ CountOf("print") = 0
        /\ CountOf("open") = 0 /\ CountOf("close") = 0
        /\ scope_count = 0 /\ scope_timers = <<>>
        /\ CountOf("error") <= 1
        /\ Count("highlight", 1) >= 1 =>
               /\ ~is_running
               /\ CountOf("error") = 1
               /\ CountOf("finished") = 1
               /\ Len(call_stack) = 1 /\ call_stack[1].ip = 0

\* print(y) has been dispatched and the run has ended with NameError.
C12_Witness ==
    /\ UndefinedNameFirst
    /\ ~is_running
    /\ \E i \in 1..Len(events) : events[i].e = "error" /\ events[i].txt = "NameError"

\* The dispatch of a statement of the current run has raised.
Errored ==
    \E i \in 1..Len(events) : events[i].e = "error" /\ events[i].txt # "SyntaxError"

\* C13: the step in which a dispatch raises ends the run, and from then on,
\* until the user starts a new run, no invocation of _next_step dispatches a
\* statement, moves an instruction pointer or changes a binding.
C13_ErrorAbortsRun ==
    /\ [](Errored => ~is_running)
    /\ [][(Errored /\ ~is_running') =>
             UNCHANGED <<call_stack, events, awaiting_return_value, return_value,
                         functions, classes, is_paused, step_timer>>]_vars

\* _next_step has been invoked after a dispatch raised and ended the run;
\* the statement after the failing one has not been dispatched.
C13_Witness ==
    /\ Family = "error"
    /\ Errored
    /\ ~is_running
    /\ "step_while_not_running" \in seen
    /\ step_stmts = <<>>
    /\ Len(Main) = 3 /\ Count("highlight", 2) = 1 /\ Count("highlight", 3) = 0

\* C14: a timer-driven invocation of _next_step on a run that is not active
\* (finished, stopped or never started) changes neither the call stack and
\* its pointers and bindings, nor the pending-return marker, nor the
\* running and paused flags, and emits nothing (no second executionFinished).
C14_StepAfterFinishIsNoOp ==
    [][(~is_running /\ TimerEvent) =>
          UNCHANGED <<call_stack, awaiting_return_value, return_value, is_running,
                      is_paused, events, functions, classes, step_timer>>]_vars

\* A straight-line program has run to its end, and _next_step has been
\* invoked on the finished run: executionFinished was emitted once.
C14_Witness ==
    /\ Family = "straight" /\ Len(Main) >= 2
    /\ ~is_running
    /\ CountOf("finished") = 1 /\ CountOf("error") = 0
    /\ "step_while_not_running" \in seen
    /\ Len(call_stack) = 1 /\ call_stack[1].ip = Len(Main)

\* The run of the program in the editor that is never paused or stopped:
\* start() and then _next_step until the run is over or the log is full.
RECURSIVE RunOn(_, _)
RunOn(s, fuel) ==
    IF ~s.is_running \/ fuel = 0 THEN s ELSE RunOn(_next_step(s), fuel - 1)

\* Every step of an active run makes at least one presentation call, so
\* `steps` steps determine the first `steps` calls of the run.
UnpausedRun(steps) ==
    RunOn(start([State EXCEPT !.is_running = FALSE, !.is_paused = FALSE,
                              !.return_value = return_value_at_start]),
          steps)

\* C15: a timer-driven _next_step on a paused run changes nothing of the
\* interpreter's state, pause() itself changes only the paused flag and the
\* timer, and the presentation calls of a run that has been paused and
\* resumed are, in order, those of the run of the same program that is never
\* paused: no statement is skipped or dispatched twice.  The calls are
\* compared when the run has ended or has been stopped; a run can be stopped
\* after any step, so every sequence of calls a run makes is compared.
C15_PauseResumeTransparent ==
    /\ [][(is_paused /\ TimerEvent) =>
             UNCHANGED <<call_stack, awaiting_return_value, return_value, is_running,
                         is_paused, events, functions, classes, step_timer>>]_vars
    /\ [][(~is_paused /\ is_paused') =>
             UNCHANGED <<call_stack, awaiting_return_value, return_value, is_running,
                         events, functions, classes>>]_vars
    /\ [](("resumed" \in seen /\ ~is_running /\ LogOpen) =>
              IsPrefix(events, UnpausedRun(Len(events)).events))

\* A run of a for loop over a list that was paused, received a timer event
\* while paused, was resumed and has finished with the complete sequence of
\* presentation calls of the run that is never paused.
C15_Witness ==
    /\ Family = "for_list"
    /\ {"resumed", "step_while_paused"} \subseteq seen
    /\ ~is_running /\ CountOf("finished") = 1
    /\ events = UnpausedRun(MaxLog).events

\* C16: stop() on an active run leaves an empty call stack.
C16_StopDiscardsStack == [][Stop => call_stack' = <<>>]_vars

\* The frames of the call stack that belong to the function func_name.
ActiveFrames(func_name) == {i \in DOMAIN call_stack : call_stack[i].name = func_name}

\* C17: no function has more than MAX_RECURSION_DEPTH frames on the call
\* stack at once.
C17_RecursionCeiling ==
    \A i \in DOMAIN call_stack :
        Cardinality(ActiveFrames(call_stack[i].name)) <= MAX_RECURSION_DEPTH

NameErrorReported ==
    \E i \in 1..Len(events) : events[i].e = "error" /\ events[i].txt = "NameError"

\* C18: once the statement that calls the undefined function foo has been
\* dispatched (x = foo() or the bare statement foo()), the run has been
\* aborted with a NameError and the next statement is never dispatched.
C18_UnknownCallAborts ==
    (Family = "unknown_call" /\ Count("highlight", 1) >= 1) =>
        /\ ~is_running
        /\ NameErrorReported
        /\ Count("highlight", 2) = 0 /\ CountOf("print") = 0

\* C19: once the statement of an unimplemented kind on line 2 (pass, break,
\* continue, a bare expression, try) has been dispatched, the run has been
\* aborted with a diagnostic, and the statement was dispatched once only.
C19_UnsupportedStatementAborts ==
    (Family = "unsupported" /\ Count("highlight", 2) >= 1) =>
        /\ ~is_running
        /\ CountOf("error") = 1
        /\ Count("highlight", 2) = 1

\* C20: for a text that does not parse, start() leaves the engine not
\* running with an empty call stack and no registered function, schedules no
\* step (neither the single shot nor step_timer), and no statement is ever
\* dispatched.
C20_ParseFailureStartsNothing ==
    Family = "unparsable" =>
        /\ ~is_running /\ ~is_paused
        /\ call_stack = <<>> /\ functions = <<>>
        /\ single_shots = 0 /\ ~step_timer
        /\ CountOf("highlight") = 0 /\ step_stmts = <<>>
        /\ CountOf("error") <= 1

\* start() has been called on the text that does not parse and has reported
\* the syntax error.
C20_Witness ==
    /\ Family = "unparsable"
    /\ events = << Ev("error", 0, 0, "", NoneV, "SyntaxError") >>

\* x = 1 / f(2) or t = f(2) / print(x): the call on line 2 is stepped.
SteppedCallSite ==
    Family = "call"
    /\ \/ Main[2].k = "Assign" /\ Main[2].value.k = "Call"
       \/ Main[2].k = "Expr" /\ Main[2].value.k = "Call"

\* C21: when a statement-level call (bare or as the value of an assignment)
\* has pushed the frame of f, the first statement of f's body (line 11) is
\* dispatched before the pointer of that frame leaves it.
C21_CalleeStartsAtFirstStatement ==
    (SteppedCallSite /\ LogOpen) =>
        \A i \in 2..Len(call_stack) :
            call_stack[i].ip >= 1 => Count("highlight", 11) >= 1

\* C22: every dispatch of the `if` of f (line 12) evaluates its test once
\* and is followed by the statements of the chosen branch only: the
\* then-branch (line 13) is dispatched as often as the test was truthy, the
\* else-branch (line 14) as often as it was falsy, and never more.
C22_IfRunsChosenBranchOnly ==
    (Family = "if_in_function_twice" /\ LogOpen) =>
        /\ Count("condition", 12) <= Count("highlight", 12)
        /\ Count("highlight", 13)
               <= Cardinality({i \in 1..Len(events) :
                      events[i].e = "condition" /\ events[i].line = 12
                      /\ Truthy(events[i].val)})
        /\ Count("highlight", 14)
               <= Cardinality({i \in 1..Len(events) :
                      events[i].e = "condition" /\ events[i].line = 12
                      /\ ~Truthy(events[i].val)})

\* The names the drawn programs bind, and one that none of them binds.
LookupNames == {"x", "y", "t", "n", "i", "s", "r", "undefined_name"}

BindingFrames(id) == {i \in 1..Len(call_stack) : id \in DOMAIN call_stack[i].locals}

Innermost(frames) == CHOOSE m \in frames : \A k \in frames : k <= m

NameLooksUp(id, r) ==
    IF BindingFrames(id) = {} THEN r.err = "NameError"
    ELSE r.err = "" /\ r.val = call_stack[Innermost(BindingFrames(id))].locals[id]

\* C23: on every reachable call stack, evaluating a name yields the binding
\* of the frame closest to the top of the stack that has the name in its
\* locals, and raises NameError exactly when no frame binds the name.
C23_NameLookupInnermostFirst ==
    \A id \in LookupNames : NameLooksUp(id, _evaluate_expression(State, Name(id)))

\* Two frames bind x to different values, and some name is bound nowhere.
C23_Witness ==
    /\ Len(call_stack) >= 2
    /\ "x" \in DOMAIN call_stack[1].locals
    /\ "x" \in DOMAIN call_stack[Len(call_stack)].locals
    /\ call_stack[1].locals["x"] # call_stack[Len(call_stack)].locals["x"]
    /\ BindingFrames("undefined_name") = {}

\* C24: for the statement-level call f(x + 2, x) made with x = N and y = 7
\* in the module frame, every frame of f binds its first parameter x to
\* N + 2 and its second parameter y to N (the argument expressions read the
\* caller's x, and values go to parameters by position), while the module
\* frame keeps x = N and y = 7.
C24_ArgumentsEvaluatedInCaller ==
    Family = "call_args" =>
        \A i \in 2..Len(call_stack) :
            /\ {"x", "y"} \subseteq DOMAIN call_stack[i].locals
            /\ call_stack[i].locals["x"] = IntV(N + 2)
            /\ call_stack[i].locals["y"] = IntV(N)
            /\ call_stack[1].locals["x"] = IntV(N)
            /\ call_stack[1].locals["y"] = IntV(7)

\* The frame of f is on the stack and its print(x, y) has shown both
\* parameters.
C24_Witness ==
    /\ Family = "call_args" /\ Len(call_stack) = 2
    /\ call_stack[2].name = "f"
    /\ \E i \in 1..Len(events) :
           events[i].e = "print" /\ events[i].txt = ToString(N + 2) \o " " \o ToString(N)

\* A step of the engine: a timer callback or resume().
StepTaken == ticks' # ticks \/ (is_paused /\ ~is_paused' /\ is_running')

TopFrame == call_stack[Len(call_stack)]

TopNodeAt(line) ==
    LET nodes == FrameNodes(State, TopFrame)
    IN nodes[CHOOSE i \in 1..Len(nodes) : nodes[i].lineno = line]

\* The step dispatches a `return` in a function frame and the run goes on.
ReturnDispatched ==
    /\ StepTaken /\ Len(call_stack) >= 2 /\ is_running'
    /\ step_stmts' # <<>>
    /\ step_stmts'[1].k = "Return" /\ step_stmts'[1].via = "ip"

\* The step finds the pointer of a function frame past the end of its body.
FellOffEnd ==
    /\ StepTaken /\ Len(call_stack) >= 2 /\ is_running /\ ~is_paused'
    /\ step_stmts' = <<>> /\ Len(call_stack') < Len(call_stack)

\* C25: the step that dispatches a `return` in a function frame removes that
\* frame from the stack (so no later statement of it is dispatched) and
\* records as return_value the value of the return expression in the scope
\* chain topped by that frame, None for a bare return; a function frame that
\* runs off its end is removed with return_value None.  In f(2) / g(5) the
\* statements after the returns of f and g are never dispatched, and
\* return_value is 3 once f has returned and None once g has.
C25_ReturnEndsFrame ==
    /\ [](Family = "return" =>
            /\ Count("highlight", 13) = 0
            /\ N = 0 => Count("highlight", 23) = 0
            /\ (CountOf("close") = 1 /\ CountOf("finished") = 0) => return_value = IntV(3)
            /\ CountOf("close") = 2 => return_value = NoneV)
    /\ [][ReturnDispatched =>
            /\ call_stack' = SubSeq(call_stack, 1, Len(call_stack) - 1)
            /\ return_value'
                 = _evaluate_expression(State, TopNodeAt(step_stmts'[1].line).value).val]_vars
    /\ [][FellOffEnd =>
            /\ call_stack' = SubSeq(call_stack, 1, Len(call_stack) - 1)
            /\ return_value' = NoneV]_vars

\* f has returned 3 and g has returned after it, leaving None.
C25_Witness ==
    /\ Family = "return" /\ CountOf("close") = 2 /\ return_value = NoneV
    /\ Count("highlight", 12) = 1
    /\ \/ N = 0 /\ Count("highlight", 22) = 1
       \/ N = 1 /\ CountOf("print") >= 1

\* The step dispatches an `if`, a `while` or a `for` through a frame's pointer.
ControlDispatched ==
    /\ StepTaken /\ step_stmts' # <<>>
    /\ step_stmts'[1].via = "ip" /\ step_stmts'[1].k \in {"If", "While", "For"}

\* C26: a step that dispatches an `if`, `while` or `for` leaves the call
\* stack at the same length, and the target of a `for` is bound in the frame
\* that holds the loop: for the loop `for i in range(N)` of f (line 12) the
\* module frame never binds i, and once the loop has ended with N >= 1 the
\* frame of f still binds i to N - 1; for the module-level loop of line 2
\* the module frame still binds i to N - 1 after the loop.
C26_ControlFlowKeepsStack ==
    /\ [][ControlDispatched => Len(call_stack') = Len(call_stack)]_vars
    /\ []((Family = "for_in_function" /\ Len(call_stack) >= 1) =>
            /\ "i" \notin DOMAIN call_stack[1].locals
            /\ (Len(call_stack) = 2 /\ N >= 1 /\ Count("loop_end", 12) >= 1) =>
                   /\ "i" \in DOMAIN call_stack[2].locals
                   /\ call_stack[2].locals["i"] = IntV(N - 1))
    /\ []((Family = "for" /\ Len(call_stack) >= 1 /\ N >= 1 /\ Count("loop_end", 2) >= 1) =>
            /\ "i" \in DOMAIN call_stack[1].locals
            /\ call_stack[1].locals["i"] = IntV(N - 1))

\* The loop of f has ended after N >= 1 iterations and the statement after
\* it, print(i), has been dispatched in the frame of f.
C26_Witness ==
    /\ Family = "for_in_function" /\ N >= 1
    /\ Len(call_stack) = 2 /\ Count("loop_end", 12) = 1
    /\ Count("highlight", 14) = 1
    /\ call_stack[2].locals["i"] = IntV(N - 1)

\* The items the loop of line 2 has delivered so far.
IsLoopItem(ev) == ev.e = "loop" /\ ev.line = 2
LoopItems == SelectSeq(events, IsLoopItem)

\* C27: the loop `for v in <iterable>` of line 2 over [10, .., 10 * N]
\* delivers exactly the items 10, .., 10 * N of the value its iterable had at
\* the first dispatch, in order, and ends once, although the body binds xs to
\* another list (for_rebind) or appends to xs (for_mutate); the iterable
\* expression mk() is evaluated once for the whole loop (for_call).
C27_ForIteratesOverSnapshot ==
    (Family \in {"for_rebind", "for_mutate", "for_call"} /\ LogOpen) =>
        /\ Len(LoopItems) <= N
        /\ \A k \in 1..Len(LoopItems) : LoopItems[k].val = IntV(10 * k)
        /\ Count("loop_end", 2) <= 1
        /\ Count("loop_end", 2) = 1 => Len(LoopItems) = N
        /\ Family = "for_call" =>
               /\ CountOf("open") <= 1
               /\ Len(LoopItems) >= 1 => CountOf("open") = 1

\* The loop over xs = [10, 20] has ended after two items, each iteration
\* having appended 99 to xs.
C27_Witness ==
    /\ Family = "for_mutate" /\ N = 2
    /\ Count("loop_end", 2) = 1 /\ Len(LoopItems) = 2
    /\ Len(call_stack) = 1
    /\ call_stack[1].locals["xs"] = ListV(<<IntV(10), IntV(20), IntV(99), IntV(99)>>)

\* The frame has nothing left to dispatch.
AtEnd(frame) == frame.ip >= Len(FrameNodes(State, frame))

\* C28: loop state lives in the iterators of the frame that holds the loop
\* and is gone when the loop has ended: a frame whose pointer has reached the
\* end of its instruction list has no loop state left, the module frame holds
\* none for the loops of f, and the body (line 3, or line 14 in f) of an
\* inner loop of 2 iterations inside an outer loop of N iterations is
\* dispatched at most N * 2 times per execution of the outer loop, exactly
\* N * 2 times once the module-level nest has finished.
C28_LoopStateLifetime ==
    (Family \in {"nested", "nested_in_function_twice"} /\ LogOpen) =>
        /\ \A i \in 1..Len(call_stack) :
               AtEnd(call_stack[i]) => call_stack[i].iterators = <<>>
        /\ Family = "nested" =>
               /\ Count("highlight", 3) <= N * 2
               /\ Count("loop_end", 1) = 1 => Count("highlight", 3) = N * 2
        /\ Family = "nested_in_function_twice" =>
               /\ Len(call_stack) >= 1 => call_stack[1].iterators = <<>>
               /\ Count("highlight", 14) <= CountOf("open") * N * 2

\* C29: f(a) called inside an expression (s = f(a) + 0, the synchronous
\* walk) and f(a) called as a statement (stepped) return the same value: once
\* the stepped call has dispatched its `return y` and its frame is gone,
\* return_value equals the value bound to s.
C29_SyncPathEqualsSteppedPath ==
    (/\ Family = "paths" /\ Len(call_stack) = 1
     /\ Count("highlight", 14) >= 1 /\ CountOf("finished") = 0
     /\ CountOf("error") = 0) =>
        /\ "s" \in DOMAIN call_stack[1].locals
        /\ return_value = call_stack[1].locals["s"]

\* C30: after the step that dispatches the statement xs.append(5) (line 2)
\* with xs bound to [10, .., 10 * N], xs is bound to that list with 5
\* appended.
C30_MethodStatementInvokesMethod ==
    (/\ Family = "method_stmt" /\ Len(call_stack) = 1
     /\ Count("highlight", 2) >= 1) =>
        /\ "xs" \in DOMAIN call_stack[1].locals
        /\ call_stack[1].locals["xs"] = ListV([k \in 1..(N + 1) |->
                                                  IF k <= N THEN IntV(10 * k) ELSE IntV(5)])

\* C31: for x = 5 / x += f(a) with f returning a + 1, once the call has
\* returned to the module frame and the pending statement has been
\* completed, x is bound in the module frame to 5 + (a + 1).
C31_AugAssignFromCall ==
    (/\ Family = "aug_call" /\ Len(call_stack) = 1
     /\ CountOf("close") >= 1 /\ awaiting_return_value = NoNode) =>
        /\ "x" \in DOMAIN call_stack[1].locals
        /\ call_stack[1].locals["x"] = IntV(5 + N + 1)

\* C32: in the program that uses f and P before their definitions, while
\* the run is on the module frame holds neither a function nor a class
\* definition in its instruction list, f and P are registered, and no
\* statement fails; right after start() the stack is the module frame alone
\* with its pointer at 0.
C32_DefinitionsRegisteredAtStart ==
    (Family = "use_before_def" /\ is_running /\ Len(call_stack) >= 1) =>
        /\ CountOf("highlight") = 0 => (Len(call_stack) = 1 /\ call_stack[1].ip = 0)
        /\ \A i \in 1..Len(call_stack[1].nodes.own) :
               call_stack[1].nodes.own[i].k \notin {"FunctionDef", "ClassDef"}
        /\ "f" \in DOMAIN functions
        /\ "P" \in DOMAIN classes
        /\ CountOf("error") = 0

\* C33: q = Q(a, 8 - a) binds q to an instance of Q whose attributes are
\* exactly x = a (set from b on line 3, then from a on line 7) and
\* y = a - b, the plain assignment of line 4 and the assignment inside the
\* `if` of line 5 having set nothing; p = P(2) binds p to an instance with
\* exactly a = 2 and b = 3, and the print of P's __init__ shows nothing.
C33_InstanceAttributesFromInit ==
    /\ (Family = "class_two" /\ Len(call_stack) >= 1
        /\ "q" \in DOMAIN call_stack[1].locals) =>
           call_stack[1].locals["q"]
               = InstanceV("Q", << AttrV("x", IntV(N)), AttrV("y", IntV(N - (8 - N))) >>)
    /\ (Family = "class" /\ Len(call_stack) >= 1
        /\ "p" \in DOMAIN call_stack[1].locals) =>
           /\ call_stack[1].locals["p"]
                  = InstanceV("P", << AttrV("a", IntV(2)), AttrV("b", IntV(3)) >>)
           /\ \A i \in 1..Len(events) : events[i].e = "print" => events[i].txt # "2"

\* q = Q(5, 3) has bound q, and the stack is back to the module frame.
C33_Witness ==
    /\ Family = "class_two" /\ N = 5 /\ Len(call_stack) = 1
    /\ "q" \in DOMAIN call_stack[1].locals
    /\ call_stack[1].locals["q"].items = << AttrV("x", IntV(5)), AttrV("y", IntV(2)) >>

\* The value of `a OP1 b` for the integers and operators of the chain programs.
FirstPair(node) ==
    LET a == node.args[1].value.v
        b == node.args[2].value.v
    IN CASE node.ops[1] = "Lt" -> BoolV(a < b)
         [] node.ops[1] = "LtE" -> BoolV(a <= b)
         [] node.ops[1] = "Eq" -> BoolV(a = b)

\* C34: once r = a OP1 b < c has been dispatched, r is bound to the value
\* of a OP1 b alone, whatever c is: no error is reported when c is an
\* undefined name, and no scope is opened when c is the call f(2).
C34_CompareUsesFirstPairOnly ==
    (Family = "chain" /\ Len(call_stack) >= 1 /\ Count("highlight", 1) >= 1) =>
        /\ CountOf("error") = 0 /\ CountOf("open") = 0
        /\ "r" \in DOMAIN call_stack[1].locals
        /\ call_stack[1].locals["r"] = FirstPair(Main[1].value)

\* r = 1 < 2 < undefined_name has bound r to True.
C34_Witness ==
    /\ Family = "chain" /\ Len(call_stack) = 1
    /\ Main[1].value.args[3] = Name("undefined_name")
    /\ "r" \in DOMAIN call_stack[1].locals
    /\ call_stack[1].locals["r"] = BoolV(TRUE)

\* The names of the keys of the dictionary of program N.
KeyNames == {DictKeys[N][i] : i \in 1..Len(DictKeys[N])}

\* C35: the dictionary bound to d is presented as a tree exactly when its
\* keys include one of value, val, data, key and one of left, right,
\* children, and as key/value rows otherwise.
C35_TreeDetection ==
    Family = "dict" =>
        \A i \in 1..Len(events) :
            (events[i].e = "var" /\ events[i].name = "d") =>
                events[i].txt =
                    IF /\ KeyNames \cap {"value", "val", "data", "key"} # {}
                       /\ KeyNames \cap {"left", "right", "children"} # {}
                    THEN "TreeWidget" ELSE "DictionaryWidget"

\* The step reports a run-time error.
ErrorStep == StepTaken /\ ~Errored /\ Errored'

OpenScopes == {call_stack[i].scope_widget : i \in 1..Len(call_stack)} \ {0}

\* C36: a step that fails leaves on the call stack exactly the frames that
\* were there when it began, in the same order (a frame pushed by the step
\* for a synchronous call or an __init__ is gone again), closes no scope, and
\* schedules the removal of no scope that belongs to a frame on the stack.
C36_FailureKeepsFrames ==
    [][ErrorStep =>
          /\ Len(call_stack') = Len(call_stack)
          /\ \A i \in 1..Len(call_stack) :
                 /\ call_stack'[i].name = call_stack[i].name
                 /\ call_stack'[i].scope_widget = call_stack[i].scope_widget
                 /\ call_stack'[i].nodes = call_stack[i].nodes
          /\ \A i \in 1..Len(events') : events'[i].e = "close" => i <= Len(events)
          /\ \A i \in 1..Len(scope_timers') :
                 scope_timers'[i] \in OpenScopes => i <= Len(scope_timers)]_vars

\* The run has failed inside g, called synchronously from the frame of f:
\* the frames of the module and of f are still on the stack.
C36_Witness ==
    /\ Family = "error_in_sync" /\ Errored /\ ~is_running
    /\ Len(call_stack) = 2 /\ call_stack[2].name = "f"
    /\ CountOf("open") = 2 /\ CountOf("close") = 0

\* C37: the registered function definitions are those found in the source
\* by start(), and running calls never changes their bodies.
C37_FunctionBodiesUnchanged ==
    functions # <<>> => functions = FunctionFinder(code_editor.body, <<>>)

\* The instruction list a frame refers to and the statement its pointer
\* is at, read in a given table of functions.
NodesIn(fns, frame) ==
    IF frame.nodes.ref = "" THEN frame.nodes.own ELSE fns[frame.nodes.ref].body

TargetIn(fns, frame) ==
    IF frame.ip < Len(NodesIn(fns, frame))
    THEN NodesIn(fns, frame)[frame.ip + 1] ELSE NoNode

\* C38: a step leaves the instruction list and the pointer's target
\* statement of every frame below the top frame unchanged, also when that
\* frame belongs to the same function as the top frame.
C38_FramesIsolated ==
    [][StepTaken =>
          \A i \in 1..(Len(call_stack) - 1) :
              /\ i <= Len(call_stack')
              /\ NodesIn(functions', call_stack'[i]) = NodesIn(functions, call_stack[i])
              /\ TargetIn(functions', call_stack'[i]) = TargetIn(functions, call_stack[i])]_vars

\* The expressions of the statements in the top frame's instruction list.
TopExpressions ==
    { FrameNodes(State, TopFrame)[i].value :
          i \in 1..Len(FrameNodes(State, TopFrame)) }

\* The frames of a stack in order, each by its name, call line, instruction
\* list and scope.
FramesOf(stack) ==
    [i \in 1..Len(stack) |->
        [name |-> stack[i].name, lineno |-> stack[i].lineno,
         nodes |-> stack[i].nodes, scope_widget |-> stack[i].scope_widget]]

\* C39: evaluating an expression, whether it returns a value or raises,
\* leaves call_stack with exactly the frames, in the order, it held before.
C39_EvaluationKeepsStack ==
    call_stack # <<>> =>
        \A e \in TopExpressions :
            FramesOf(_evaluate_expression(State, e).s.call_stack)
                = FramesOf(call_stack)

\* The evaluation of a call in a function frame opened scopes for two
\* nested synchronous calls and raised in the inner one.
C39_Witness ==
    /\ Len(call_stack) = 1
    /\ \E e \in TopExpressions :
           LET r == _evaluate_expression(State, e)
           IN /\ r.err # ""
              /\ Cardinality({i \in (Len(events) + 1)..Len(r.s.events) :
                                  r.s.events[i].e = "open"}) = 2
              /\ FramesOf(r.s.call_stack) = FramesOf(call_stack)

\* C40: a run is stepped by the callback of start()'s single shot at most
\* once, so a callback scheduled before a stop() steps no later run a
\* second time.
C40_OneInitialStepPerRun ==
    [][(single_shots' < single_shots /\ is_running /\ ~is_paused
           /\ call_stack # <<>>) => "initial" \notin seen]_vars
====
